---- MODULE Spec2Model ----
(***************************************************************************)
(* QA Cafe: the renderer pages, their localStorage artifacts and the       *)
(* request/response round trips to the model gateway, as a state machine.  *)
(*                                                                         *)
(* One page is mounted at a time (App.tsx Routes).  A page is a record of  *)
(* its useState cells; an action is one event handler together with the    *)
(* effects React runs after the render it causes.  localStorage is the     *)
(* variable store; its values are JSON texts, modelled as sequences of     *)
(* tokens, written by JSONstringify and read by JSONparse.                 *)
(***************************************************************************)
EXTENDS Integers, Sequences, FiniteSets, Bags, TLC

VARIABLES
  store,           \* localStorage, project-scoped keys: [stage][project] -> optional text
  currentProject,  \* App.tsx currentProject (NoProject = null)
  page,            \* the mounted page: its name and its useState cells
  inflight,        \* bag of gateway requests whose promise has not settled
  apiKey,          \* localStorage 'claude_api_key': optional key
  uncaught,        \* TRUE once an exception escaped a handler, an effect or a render
  chat,            \* localStorage 'qa-cafe-assistant-messages': the roles of the conversation
  probe            \* history of the run, or the input of a function under check

vars == <<store, currentProject, page, inflight, apiKey, uncaught, chat, probe>>

----------------------------------------------------------------------------
(* Bounds of the model *)

MaxInflight == 1   \* gateway requests outstanding at once
MaxPathLen == 2    \* characters of a project path
MaxTextLen == 4    \* tokens of a model response in the parser check
MaxBugs == 2       \* bug reports in a Bug Writer list
MaxSessions == 1   \* sessions in a Session Logger list
MaxMemories == 1   \* memories in a QA Assistant list
MaxChat == 2       \* messages of the QA Assistant conversation
MaxRuns == 1       \* runs in a Regression Runner history
MaxBlocks == 3     \* content blocks of a Messages API response
MaxSnapshots == 2  \* snapshots in a Comparison Tool list
MaxOutstanding == 2  \* Test Mapper runs outstanding at once, those of unmounted pages included

----------------------------------------------------------------------------
(* Optional values: null / undefined is the empty tuple *)

None == <<>>
Some(v) == <<v>>
IsSome(o) == o # <<>>
Get(o) == o[1]

Projects == {"A", "B"}
NoProject == "null"

----------------------------------------------------------------------------
(* JSON texts.  A text is a sequence of tokens: braces, brackets, a prose  *)
(* character, test-case ids and file counts.                               *)

Ids == {"T1", "T2"}
FileToks == <<"f1">>
Tokens == {"{", "}", "[", "]", "x"} \cup Ids

\* What an array may hold: every token but the structural ones and prose
IsIdList(b) == \A i \in 1..Len(b) : b[i] \notin {"{", "}", "[", "]", "x"}

\* "[" ids "]"
IsArrText(b) ==
  /\ Len(b) >= 2
  /\ b[1] = "["
  /\ b[Len(b)] = "]"
  /\ IsIdList(SubSeq(b, 2, Len(b) - 1))

\* "{" "}" or "{" "[" ids "]" "}": an object without or with its array field
IsObjText(s) ==
  /\ Len(s) >= 2
  /\ s[1] = "{"
  /\ s[Len(s)] = "}"
  /\ LET b == SubSeq(s, 2, Len(s) - 1) IN b = <<>> \/ IsArrText(b)

\* "{" object filecount "}": the Test Mapper cache record
IsCacheText(s) ==
  /\ Len(s) >= 5
  /\ s[1] = "{"
  /\ s[Len(s)] = "}"
  /\ \E n \in 1..Len(FileToks) : s[Len(s) - 1] = FileToks[n]
  /\ IsObjText(SubSeq(s, 2, Len(s) - 2))

\* "{" "[" items "]" "[" runs "]" "}": the Regression Runner artifact
IsSuiteText(s) ==
  /\ Len(s) >= 6
  /\ s[1] = "{"
  /\ s[Len(s)] = "}"
  /\ LET b == SubSeq(s, 2, Len(s) - 1)
     IN  \E k \in 2..(Len(b) - 2) :
           IsArrText(SubSeq(b, 1, k)) /\ IsArrText(SubSeq(b, k + 1, Len(b)))

JObj(arr) == [kind |-> "obj", arr |-> arr, result |-> None, filesScanned |-> 0]
JSuite(items, runs) ==
  [kind |-> "suite", arr |-> Some(items), result |-> None, filesScanned |-> 0, runs |-> runs]
JList(items) == [kind |-> "list", arr |-> Some(items), result |-> None, filesScanned |-> 0]
JCache(res, n) == [kind |-> "cache", arr |-> None, result |-> Some(res), filesScanned |-> n]

ObjOfText(s) ==
  LET b == SubSeq(s, 2, Len(s) - 1)
  IN  JObj(IF b = <<>> THEN None ELSE Some(SubSeq(b, 2, Len(b) - 1)))

SuiteOfText(s) ==
  LET b == SubSeq(s, 2, Len(s) - 1)
      k == CHOOSE k \in 2..(Len(b) - 2) :
             IsArrText(SubSeq(b, 1, k)) /\ IsArrText(SubSeq(b, k + 1, Len(b)))
  IN  JSuite(SubSeq(b, 2, k - 1), SubSeq(b, k + 2, Len(b) - 1))

FileCount(tok) == CHOOSE n \in 1..Len(FileToks) : FileToks[n] = tok

\* JSON.parse: ok = FALSE is the SyntaxError it throws
JSONparse(s) ==
  IF IsObjText(s)
    THEN [ok |-> TRUE, val |-> ObjOfText(s)]
    ELSE IF IsCacheText(s)
      THEN [ok |-> TRUE,
            val |-> JCache(ObjOfText(SubSeq(s, 2, Len(s) - 2)), FileCount(s[Len(s) - 1]))]
      ELSE IF IsArrText(s)
        THEN [ok |-> TRUE, val |-> JList(SubSeq(s, 2, Len(s) - 1))]
        ELSE IF IsSuiteText(s)
          THEN [ok |-> TRUE, val |-> SuiteOfText(s)]
          ELSE [ok |-> FALSE, val |-> JObj(None)]

\* An array written up to its first element only
StringifyObj_Truncated(v) ==
  <<"{">> \o (IF IsSome(v.arr)
               THEN <<"[">> \o SubSeq(Get(v.arr), 1, 1) \o <<"]">> ELSE <<>>) \o <<"}">>

StringifyObj(v) ==
  <<"{">> \o (IF IsSome(v.arr) THEN <<"[">> \o Get(v.arr) \o <<"]">> ELSE <<>>) \o <<"}">>

\* JSON.stringify
JSONstringify(v) ==
  IF v.kind = "cache"
    THEN <<"{">> \o StringifyObj(Get(v.result)) \o <<FileToks[v.filesScanned]>> \o <<"}">>
    ELSE IF v.kind = "list"
      THEN <<"[">> \o Get(v.arr) \o <<"]">>
      ELSE IF v.kind = "suite"
        THEN <<"{", "[">> \o Get(v.arr) \o <<"]", "[">> \o v.runs \o <<"]", "}">>
        ELSE StringifyObj(v)

\* response.match(/\{[\s\S]*\}/): the span from the first "{" to the last "}"
\* after it, or null
RegexMatch(t) ==
  LET opens == {i \in 1..Len(t) : t[i] = "{"}
  IN  IF opens = {} THEN None
      ELSE LET first == CHOOSE i \in opens : \A j \in opens : i <= j
               closes == {i \in 1..Len(t) : t[i] = "}" /\ i > first}
           IN  IF closes = {} THEN None
               ELSE LET last == CHOOSE i \in closes : \A j \in closes : j <= i
                    IN  Some(SubSeq(t, first, last))

----------------------------------------------------------------------------
(* localStorage *)

Stages == {"testmapper", "testplan", "coverage", "bugs", "sessions",
           "regression", "snapshots", "repro", "memories"}

EmptyStore == [s \in Stages |-> [p \in Projects |-> None]]

getItem(st, stage, p) == st[stage][p]
setItem(st, stage, p, text) == [st EXCEPT ![stage][p] = Some(text)]
removeItem(st, stage, p) == [st EXCEPT ![stage][p] = None]

\* A text JSON.parse rejects: a truncated object
Corrupt == <<"{">>

\* hasApiKey(): !!key && key.startsWith('sk-ant-')
hasApiKey(key) == IsSome(key) /\ Len(Get(key)) >= 1 /\ Get(key)[1] = "sk-ant-"

----------------------------------------------------------------------------
(* Requests in flight.  A request remembers the project of the render that *)
(* issued it (the handler's closure) and whether the component instance    *)
(* that issued it is still mounted (setState on an unmounted one is a      *)
(* no-op).                                                                 *)

Request(stage, p) == [stage |-> stage, project |-> p, alive |-> TRUE]

\* Every request of the bag loses its component
Orphan(B) ==
  LET dead(r) == [r EXCEPT !.alive = FALSE]
      S == {dead(r) : r \in BagToSet(B)}
  IN  [d \in S |-> (IF BagIn(d, B) THEN B[d] ELSE 0)
                   + (LET a == [d EXCEPT !.alive = TRUE]
                      IN  IF BagIn(a, B) THEN B[a] ELSE 0)]

\* What the gateway may answer to a Test Case Generator run
Responses ==
  { <<"x">>,                             \* prose, no brace
    <<"{", "x", "}">>,                   \* a span that is not JSON
    <<"{", "}", "x", "{", "}">>,         \* two objects: the span is not JSON
    <<"{", "}">>,                        \* an object without its array field
    <<"x", "{", "[", "T1", "]", "}">>,   \* prose, then an object
    <<"{", "[", "T2", "T1", "]", "}">> }

\* What the gateway may answer to a Test Mapper run
AnalysisResponses ==
  { <<"x">>, <<"{", "x", "}">>, <<"{", "}">>, <<"x", "{", "[", "T1", "]", "}">> }

----------------------------------------------------------------------------
(* Test Mapper page (src/src/renderer/pages/TestMapper.tsx) *)

TestMapperInit ==
  [name |-> "TestMapper", loading |-> FALSE, error |-> "", result |-> None,
   filesScanned |-> 0, cachedAt |-> FALSE]

\* useEffect [project]: load cached results
TestMapperLoad(st, p, pg) ==
  IF p = NoProject THEN pg
  ELSE LET cached == getItem(st, "testmapper", p)
       IN  IF IsSome(cached)
             THEN LET r == JSONparse(Get(cached))
                  IN  IF r.ok
                        THEN [pg EXCEPT !.result = r.val.result,
                                        !.filesScanned = r.val.filesScanned,
                                        !.cachedAt = TRUE]
                        ELSE pg        \* catch: invalid cache, ignore
             ELSE [pg EXCEPT !.result = None, !.filesScanned = 0, !.cachedAt = FALSE]

\* result.flows.length in the render of a result without its arrays
TestMapperRenderThrows(pg, p) ==
  /\ p # NoProject
  /\ IsSome(pg.result)
  /\ ~IsSome(Get(pg.result).arr)

----------------------------------------------------------------------------
(* Test Case Generator page (src/src/renderer/pages/TestCaseGenerator.tsx) *)

TestCaseGeneratorInit ==
  [name |-> "TestCaseGenerator", loading |-> FALSE, error |-> "",
   testPlan |-> None, hasAnalysis |-> FALSE]

\* useEffect [project]: check for the analysis, load the cached test plan
TestCaseGeneratorLoad(st, p, pg) ==
  IF p = NoProject THEN pg
  ELSE LET cachedPlan == getItem(st, "testplan", p)
           has == IsSome(getItem(st, "testmapper", p))
       IN  IF IsSome(cachedPlan)
             THEN LET r == JSONparse(Get(cachedPlan))
                  IN  IF r.ok
                        THEN [pg EXCEPT !.hasAnalysis = has, !.testPlan = Some(r.val)]
                        ELSE [pg EXCEPT !.hasAnalysis = has]    \* catch: invalid cache
             ELSE [pg EXCEPT !.hasAnalysis = has, !.testPlan = None]

\* testPlan.testCases.length in the render of a plan without testCases
TestCaseGeneratorRenderThrows(pg, p, key) ==
  /\ p # NoProject
  /\ hasApiKey(key)
  /\ IsSome(pg.testPlan)
  /\ ~IsSome(Get(pg.testPlan).arr)

----------------------------------------------------------------------------
(* What an effect or a handler leaves behind: the page cells, the store,   *)
(* and whether an exception escaped it.                                    *)

Outcome(pg, st, threw) == [page |-> pg, store |-> st, threw |-> threw]

\* parsed.testCases || []
TestCasesOr(v) == IF IsSome(v.arr) THEN Get(v.arr) ELSE <<>>

----------------------------------------------------------------------------
(* Lists a page keeps in a cell and mirrors in the store *)

Has(items, x) == \E i \in 1..Len(items) : items[i] = x

Without(items, x) == SelectSeq(items, LAMBDA y : y # x)

\* saved ? JSON.parse(saved) : [] inside try, catch -> []
LoadList(st, stage, p) ==
  LET saved == getItem(st, stage, p)
  IN  IF IsSome(saved)
        THEN LET r == JSONparse(Get(saved))
             IN  IF r.ok THEN TestCasesOr(r.val) ELSE <<>>
        ELSE <<>>

\* A save effect without its length guard
SaveList_NoGuard(st, stage, p, items) ==
  IF p # NoProject
    THEN setItem(st, stage, p, JSONstringify(JList(items)))
    ELSE st

\* if (project && items.length > 0) setItem(key(project), JSON.stringify(items))
SaveList(st, stage, p, items) ==
  IF p # NoProject /\ Len(items) > 0
    THEN setItem(st, stage, p, JSONstringify(JList(items)))
    ELSE st

----------------------------------------------------------------------------
(* Coverage Tracker page (src/unnamed/part_005) *)

DefaultCoverage == [statuses |-> <<>>, lastUpdated |-> 0]

CoverageTrackerInit ==
  [name |-> "CoverageTracker", testCases |-> <<>>, coverage |-> DefaultCoverage]

\* A coverage status as the coverage artifact holds it; notes are left out
StatusText(t, status) == t \o ":" \o status

Statuses == {"pending", "passed", "failed", "blocked", "skipped"}

\* The coverage data of a project: JSON.parse(coverageData) inside try,
\* catch and no data -> { statuses: {}, lastUpdated: 0 }.  Stored coverage
\* has a lastUpdated above 0, Date.now() at its last change.
LoadCoverage(st, p) ==
  LET coverageData == getItem(st, "coverage", p)
  IN  IF IsSome(coverageData) /\ JSONparse(Get(coverageData)).ok
        THEN [statuses |-> TestCasesOr(JSONparse(Get(coverageData)).val), lastUpdated |-> 1]
        ELSE DefaultCoverage

\* The load effect reading the analysis key where the plan key is meant
CoverageTrackerLoad_WrongKey(st, p, pg) ==
  IF p = NoProject THEN pg
  ELSE LET testPlanData == getItem(st, "testmapper", p)
           tcs == IF IsSome(testPlanData)
                    THEN LET r == JSONparse(Get(testPlanData))
                         IN  IF r.ok THEN TestCasesOr(r.val) ELSE <<>>
                    ELSE <<>>
       IN  [pg EXCEPT !.testCases = tcs, !.coverage = LoadCoverage(st, p)]

\* useEffect [project]: load test cases and coverage data
CoverageTrackerLoad(st, p, pg) ==
  IF p = NoProject THEN pg
  ELSE LET testPlanData == getItem(st, "testplan", p)
           tcs == IF IsSome(testPlanData)
                    THEN LET r == JSONparse(Get(testPlanData))
                         IN  IF r.ok THEN TestCasesOr(r.val) ELSE <<>>
                    ELSE <<>>
       IN  [pg EXCEPT !.testCases = tcs, !.coverage = LoadCoverage(st, p)]

\* useEffect [coverage, project]: save coverage data
CoverageTrackerSave(st, p, pg) ==
  IF p # NoProject /\ pg.coverage.lastUpdated > 0
    THEN setItem(st, "coverage", p, JSONstringify(JObj(Some(pg.coverage.statuses))))
    ELSE st

----------------------------------------------------------------------------
(* Comparison Tool page (src/src/renderer/pages/ComparisonTool.tsx) *)

ComparisonToolInit ==
  [name |-> "ComparisonTool", snapshots |-> <<>>, testCases |-> <<>>]

\* useEffect [project]: load snapshots and test cases
ComparisonToolLoad(st, p, pg) ==
  IF p = NoProject THEN pg
  ELSE LET saved == getItem(st, "snapshots", p)
           snaps == IF IsSome(saved)
                      THEN LET r == JSONparse(Get(saved))
                           IN  IF r.ok THEN TestCasesOr(r.val) ELSE <<>>
                      ELSE <<>>
           testPlanData == getItem(st, "testplan", p)
           tcs == IF IsSome(testPlanData)
                    THEN LET r == JSONparse(Get(testPlanData))
                         IN  IF r.ok THEN TestCasesOr(r.val) ELSE <<>>
                    ELSE pg.testCases       \* no else branch: the cell keeps its value
       IN  [pg EXCEPT !.snapshots = snaps, !.testCases = tcs]

\* useEffect [snapshots, project]: save snapshots
ComparisonToolSave(st, p, pg) ==
  IF p # NoProject /\ Len(pg.snapshots) > 0
    THEN setItem(st, "snapshots", p, JSONstringify(JList(pg.snapshots)))
    ELSE st

----------------------------------------------------------------------------
(* Regression Runner page (src/src/renderer/pages/RegressionRunner.tsx) *)

\* The bugs a list may hold, and the severity each was saved with
AllBugs == {"a1", "a2", "a3", "b1", "b2", "b3"}

Severity(b) ==
  CASE b \in {"a1", "b1"} -> "critical"
    [] b \in {"a3", "b3"} -> "high"
    [] OTHER -> "medium"

\* RegressionItem { id, type, referenceId, inSuite }; name and priority are
\* copies of the referenced test case or bug and are left out
TestItem(t, inSuite) ==
  [id |-> "test-" \o t, type |-> "test", referenceId |-> t, inSuite |-> inSuite]

BugItem(b, inSuite) ==
  [id |-> "bug-" \o b, type |-> "bug", referenceId |-> b, inSuite |-> inSuite]

AllItems ==
  {TestItem(t, f) : t \in Ids, f \in BOOLEAN} \cup {BugItem(b, f) : b \in AllBugs, f \in BOOLEAN}

RunResults == {"passed", "failed"}

RunIds == <<"r1", "r2", "r3">>

\* An item, a recorded result and a run as JSON.stringify writes them
ItemText(it) == it.id \o (IF it.inSuite THEN "+" ELSE "-")

ResultText(id, result) == id \o "=" \o result

RunText(run) ==
  <<"(", run.id>> \o [i \in 1..Len(run.results) |->
                        ResultText(run.results[i][1], run.results[i][2])] \o <<")">>

RECURSIVE RunsText(_)
RunsText(runs) == IF runs = <<>> THEN <<>> ELSE RunText(Head(runs)) \o RunsText(Tail(runs))

ItemsText(items) == [i \in 1..Len(items) |-> ItemText(items[i])]

\* ... and as JSON.parse reads them back
ItemOfText(tok) == CHOOSE it \in AllItems : ItemText(it) = tok

ResultOfText(tok) ==
  CHOOSE pr \in {it.id : it \in AllItems} \X RunResults : ResultText(pr[1], pr[2]) = tok

ItemsOfText(toks) == [i \in 1..Len(toks) |-> ItemOfText(toks[i])]

RECURSIVE RunsOfText(_)
RunsOfText(toks) ==
  IF toks = <<>> THEN <<>>
  ELSE LET close == CHOOSE k \in 1..Len(toks) :
                      toks[k] = ")" /\ \A j \in 1..(k - 1) : toks[j] # ")"
       IN  <<[id |-> toks[2],
              results |-> [i \in 1..(close - 3) |-> ResultOfText(toks[i + 2])]]>>
             \o RunsOfText(SubSeq(toks, close + 1, Len(toks)))

RegressionRunnerInit ==
  [name |-> "RegressionRunner", testCases |-> <<>>, bugs |-> <<>>,
   regressionItems |-> <<>>, runs |-> <<>>, activeRun |-> None, currentIndex |-> 0]

\* buildInitialItems(JSON.parse(testPlanData).testCases, ..), outside every
\* try: JSON.parse throws on an invalid text, tests.filter on a plan without
\* testCases
PlanReparseThrows(testPlanData) ==
  /\ IsSome(testPlanData)
  /\ LET r == JSONparse(Get(testPlanData)) IN ~r.ok \/ ~IsSome(r.val.arr)

\* The initial suite with every bug left out of it
buildInitialItems_NoBugInSuite(tests, failedIds, bugsList) ==
  LET failed == SelectSeq(tests, LAMBDA t : t \in failedIds)
  IN  [i \in 1..Len(failed) |-> TestItem(failed[i], TRUE)]
        \o [i \in 1..Len(bugsList) |-> BugItem(bugsList[i], FALSE)]

\* buildInitialItems: the failed tests, then the bugs
buildInitialItems(tests, failedIds, bugsList) ==
  LET failed == SelectSeq(tests, LAMBDA t : t \in failedIds)
  IN  [i \in 1..Len(failed) |-> TestItem(failed[i], TRUE)]
        \o [i \in 1..Len(bugsList) |->
              BugItem(bugsList[i], Severity(bugsList[i]) \in {"critical", "high"})]

\* The ids the coverage artifact marks failed; an invalid text marks none
FailedTestIds(coverageData) ==
  IF IsSome(coverageData) /\ JSONparse(Get(coverageData)).ok
    THEN LET statuses == TestCasesOr(JSONparse(Get(coverageData)).val)
         IN  {t \in Ids : Has(statuses, StatusText(t, "failed"))}
    ELSE {}

\* A load effect that rebuilds the suite from its seeds on every load
RegressionRunnerLoad_Rebuilds(st, p, pg) ==
  IF p = NoProject THEN Outcome(pg, st, FALSE)
  ELSE LET testPlanData == getItem(st, "testplan", p)
           tcs == IF IsSome(testPlanData)
                    THEN LET r == JSONparse(Get(testPlanData))
                         IN  IF r.ok THEN TestCasesOr(r.val) ELSE <<>>
                    ELSE pg.testCases
           failedTestIds == FailedTestIds(getItem(st, "coverage", p))
           bugsData == getItem(st, "bugs", p)
           loadedBugs == LoadList(st, "bugs", p)
           bugs == IF IsSome(bugsData) THEN loadedBugs ELSE pg.bugs
           loaded == [pg EXCEPT !.testCases = tcs, !.bugs = bugs]
       IN  IF PlanReparseThrows(testPlanData)
             THEN Outcome(loaded, st, TRUE)
             ELSE Outcome([loaded EXCEPT !.regressionItems =
                             buildInitialItems(
                               IF IsSome(testPlanData)
                                 THEN Get(JSONparse(Get(testPlanData)).val.arr) ELSE <<>>,
                               failedTestIds, loadedBugs)],
                          st, FALSE)

\* useEffect [project]: load test cases, coverage, bugs and the saved suite.
\* The suite is rebuilt from the plan by a JSON.parse outside every try.
RegressionRunnerLoad(st, p, pg) ==
  IF p = NoProject THEN Outcome(pg, st, FALSE)
  ELSE LET testPlanData == getItem(st, "testplan", p)
           tcs == IF IsSome(testPlanData)
                    THEN LET r == JSONparse(Get(testPlanData))
                         IN  IF r.ok THEN TestCasesOr(r.val) ELSE <<>>
                    ELSE pg.testCases
           failedTestIds == FailedTestIds(getItem(st, "coverage", p))
           bugsData == getItem(st, "bugs", p)
           loadedBugs == LoadList(st, "bugs", p)
           bugs == IF IsSome(bugsData) THEN loadedBugs ELSE pg.bugs
           regressionData == getItem(st, "regression", p)
           savedOk == IsSome(regressionData) /\ JSONparse(Get(regressionData)).ok
           loaded == [pg EXCEPT !.testCases = tcs, !.bugs = bugs]
       IN  IF savedOk
             THEN LET saved == JSONparse(Get(regressionData)).val
                  IN  Outcome([loaded EXCEPT
                                 !.regressionItems =
                                   IF saved.kind = "suite"
                                     THEN ItemsOfText(Get(saved.arr)) ELSE <<>>,
                                 !.runs =
                                   IF saved.kind = "suite"
                                     THEN RunsOfText(saved.runs) ELSE <<>>],
                              st, FALSE)
             ELSE IF PlanReparseThrows(testPlanData)
               THEN Outcome(loaded, st, TRUE)
               ELSE Outcome([loaded EXCEPT !.regressionItems =
                               buildInitialItems(
                                 IF IsSome(testPlanData)
                                   THEN Get(JSONparse(Get(testPlanData)).val.arr) ELSE <<>>,
                                 failedTestIds, loadedBugs)],
                            st, FALSE)

\* A save effect that writes nothing
RegressionRunnerSave_Off(st, p, pg) == st

\* useEffect [regressionItems, runs, project]: save regression data
RegressionRunnerSave(st, p, pg) ==
  IF p # NoProject /\ (Len(pg.regressionItems) > 0 \/ Len(pg.runs) > 0)
    THEN setItem(st, "regression", p,
                 JSONstringify(JSuite(ItemsText(pg.regressionItems), RunsText(pg.runs))))
    ELSE st

\* Both effects after a render with a new project: the load effect reads,
\* the save effect writes the cells of that render, and after the render
\* with the loaded cells the save effect writes again
RegressionRunnerEffects(st, p, pg) ==
  LET loaded == RegressionRunnerLoad(st, p, pg)
  IN  IF loaded.threw
        THEN Outcome(pg, RegressionRunnerSave(st, p, pg), TRUE)
        ELSE Outcome(loaded.page,
                     RegressionRunnerSave(RegressionRunnerSave(st, p, pg), p, loaded.page),
                     FALSE)

----------------------------------------------------------------------------
(* Summary Generator page (src/src/renderer/pages/SummaryGenerator.tsx) *)

SummaryGeneratorInit ==
  [name |-> "SummaryGenerator", projectData |-> None, loading |-> FALSE, error |-> ""]

SummaryKeys == {"testmapper", "testplan", "coverage", "bugs", "sessions"}

\* useEffect [project]: load all project data; no JSON.parse is guarded
SummaryGeneratorLoad(st, p, pg) ==
  IF p = NoProject THEN Outcome(pg, st, FALSE)
  ELSE IF \E k \in SummaryKeys :
            IsSome(getItem(st, k, p)) /\ ~JSONparse(Get(getItem(st, k, p))).ok
    THEN Outcome(pg, st, TRUE)
    ELSE Outcome([pg EXCEPT !.projectData =
                    Some([k \in SummaryKeys |->
                           IF IsSome(getItem(st, k, p))
                             THEN Some(JSONparse(Get(getItem(st, k, p))).val)
                             ELSE None])],
                 st, FALSE)

----------------------------------------------------------------------------
(* Bug Writer page (src/unnamed/part_003) *)

\* A bug report is a token: Date.now() makes it unlike every other, the
\* letter tells the project that was current when it was written
BugNames == [A |-> <<"a1", "a2", "a3">>, B |-> <<"b1", "b2", "b3">>]

BugWriterInit ==
  [name |-> "BugWriter", bugs |-> <<>>, loading |-> FALSE, showForm |-> FALSE,
   alerted |-> FALSE]

\* useEffect [project]: load bugs
BugWriterLoad(st, p, pg) ==
  IF p = NoProject THEN [pg EXCEPT !.bugs = <<>>]
  ELSE [pg EXCEPT !.bugs = LoadList(st, "bugs", p)]

\* The effects after a render with a new project: the load effect reads the
\* store, the save effect [bugs, project] writes the bugs of that render
\* under the new project, and runs again on the render the load caused.
BugWriterEffects(st, p, pg) ==
  LET loaded == BugWriterLoad(st, p, pg)
  IN  Outcome(loaded,
              SaveList(SaveList(st, "bugs", p, pg.bugs), "bugs", p, loaded.bugs),
              FALSE)

\* The parse step of structureWithAI: the form is shown on a result, the
\* catch alerts, and a text without a brace span does neither
StructureParse(pg, response) ==
  LET jsonMatch == RegexMatch(response)
  IN  IF IsSome(jsonMatch)
        THEN IF JSONparse(Get(jsonMatch)).ok
               THEN [pg EXCEPT !.showForm = TRUE]
               ELSE [pg EXCEPT !.alerted = TRUE]
        ELSE pg

----------------------------------------------------------------------------
(* Session Logger page (src/src/renderer/pages/SessionLogger.tsx) *)

\* A session is a token: its id, "+" while it has no endTime and "-" once
\* it has, "n" when it has text entries, "v" when it has a voice entry
SessionNames == << <<"1+", "1+n", "1-", "1-n", "1+v", "1+nv", "1-v", "1-nv">>,
                   <<"2+", "2+n", "2-", "2-n", "2+v", "2+nv", "2-v", "2-nv">>,
                   <<"3+", "3+n", "3-", "3-n", "3+v", "3+nv", "3-v", "3-nv">> >>

SessionId(tok) ==
  CHOOSE i \in 1..Len(SessionNames) : \E k \in 1..8 : SessionNames[i][k] = tok

SessionForm(tok) == CHOOSE k \in 1..8 : SessionNames[SessionId(tok)][k] = tok

HasEndTime(tok) == SessionForm(tok) \in {3, 4, 7, 8}

\* { ...s, endTime: Date.now() }
WithEndTime(tok) ==
  IF HasEndTime(tok) THEN tok ELSE SessionNames[SessionId(tok)][SessionForm(tok) + 2]

\* { ...s, entries: [...s.entries, newEntry] }
WithEntry(tok) ==
  SessionNames[SessionId(tok)][IF SessionForm(tok) % 2 = 1 THEN SessionForm(tok) + 1
                               ELSE SessionForm(tok)]

\* { ...s, entries: [...s.entries, newEntry] } with a voice entry
WithVoice(tok) ==
  SessionNames[SessionId(tok)][IF SessionForm(tok) <= 4 THEN SessionForm(tok) + 4
                               ELSE SessionForm(tok)]

MapSessions(items, id, change) ==
  [i \in 1..Len(items) |->
     IF SessionId(items[i]) # id THEN items[i]
     ELSE IF change = "endTime" THEN WithEndTime(items[i])
     ELSE IF change = "voice" THEN WithVoice(items[i])
     ELSE WithEntry(items[i])]

\* recorder: the sessions and activeSession that the onstop callback of
\* mediaRecorderRef.current closes over
SessionLoggerInit ==
  [name |-> "SessionLogger", sessions |-> <<>>, activeSession |-> None,
   isRecording |-> FALSE, recorder |-> None]

\* useEffect [project]: load sessions, find the one without endTime
SessionLoggerLoad(st, p, pg) ==
  IF p = NoProject THEN [pg EXCEPT !.sessions = <<>>, !.activeSession = None]
  ELSE LET saved == getItem(st, "sessions", p)
       IN  IF IsSome(saved) /\ ~JSONparse(Get(saved)).ok
             THEN [pg EXCEPT !.sessions = <<>>]       \* catch
             ELSE LET loadedSessions == LoadList(st, "sessions", p)
                      open == {i \in 1..Len(loadedSessions) : ~HasEndTime(loadedSessions[i])}
                  IN  [pg EXCEPT !.sessions = loadedSessions,
                                 !.activeSession =
                                   IF open = {} THEN None
                                   ELSE Some(loadedSessions[CHOOSE i \in open :
                                                              \A j \in open : i <= j])]

SessionLoggerEffects(st, p, pg) ==
  LET loaded == SessionLoggerLoad(st, p, pg)
  IN  Outcome(loaded,
              SaveList(SaveList(st, "sessions", p, pg.sessions), "sessions", p,
                       loaded.sessions),
              FALSE)

----------------------------------------------------------------------------
(* QA Assistant component (src/unnamed/part_002); its project context      *)
(* cells are left out.                                                     *)

\* A memory is a token: its id is Date.now(), the letter tells the project
\* that was current when it was saved
MemoryNames == [A |-> <<"m1", "m2", "m3">>, B |-> <<"n1", "n2", "n3">>]

AllMemories == {MemoryNames[p][i] : p \in Projects, i \in 1..3}

\* useState initialisers: the conversation saved by the last instance
QAAssistantInit ==
  [name |-> "QAAssistant", messages |-> chat, loading |-> FALSE,
   memories |-> <<>>, showMemories |-> FALSE]

\* useEffect [project]: load memories
QAAssistantLoad(st, p, pg) ==
  IF p = NoProject THEN [pg EXCEPT !.memories = <<>>]
  ELSE [pg EXCEPT !.memories = LoadList(st, "memories", p)]

QAAssistantEffects(st, p, pg) ==
  LET loaded == QAAssistantLoad(st, p, pg)
  IN  Outcome(loaded,
              SaveList(SaveList(st, "memories", p, pg.memories), "memories", p,
                       loaded.memories),
              FALSE)

----------------------------------------------------------------------------
(* Reproduce Helper page (src/unnamed/part_001); its sessions and saved    *)
(* repros are left out.                                                    *)

ReproduceHelperInit ==
  [name |-> "ReproduceHelper", bugs |-> <<>>, selectedBugId |-> None,
   loading |-> FALSE, error |-> "", reproSteps |-> None]

\* useEffect [project]: load bugs; nothing is set without a project
ReproduceHelperLoad(st, p, pg) ==
  IF p = NoProject THEN pg
  ELSE [pg EXCEPT !.bugs = LoadList(st, "bugs", p)]

----------------------------------------------------------------------------
(* Settings page (src/src/renderer/pages/Settings.tsx) *)

\* useEffect []: setHasKey(hasApiKey())
SettingsInit == [name |-> "Settings", hasKey |-> hasApiKey(apiKey)]

----------------------------------------------------------------------------
(* Mounting, rendering and the effects that follow a change of project *)

Dashboard == [name |-> "Dashboard"]

\* The React root after an exception escaped a render or an effect
Crashed == [name |-> "Crashed"]

PipelinePages == {"TestMapper", "TestCaseGenerator", "CoverageTracker",
                  "ComparisonTool", "RegressionRunner", "SummaryGenerator"}

InitialCells(name) ==
  CASE name = "TestMapper" -> TestMapperInit
    [] name = "TestCaseGenerator" -> TestCaseGeneratorInit
    [] name = "CoverageTracker" -> CoverageTrackerInit
    [] name = "ComparisonTool" -> ComparisonToolInit
    [] name = "RegressionRunner" -> RegressionRunnerInit
    [] name = "SummaryGenerator" -> SummaryGeneratorInit
    [] name = "BugWriter" -> BugWriterInit
    [] name = "SessionLogger" -> SessionLoggerInit
    [] name = "QAAssistant" -> QAAssistantInit
    [] name = "ReproduceHelper" -> ReproduceHelperInit
    [] name = "Settings" -> SettingsInit
    [] OTHER -> Dashboard

\* Test Case Generator given the save effect the list pages have
ProjectEffects_PlanSaveEffect(st, p, pg) ==
  CASE pg.name = "TestMapper" -> Outcome(TestMapperLoad(st, p, pg), st, FALSE)
    [] pg.name = "TestCaseGenerator" ->
         Outcome(TestCaseGeneratorLoad(st, p, pg),
                 IF p # NoProject /\ IsSome(pg.testPlan)
                   THEN setItem(st, "testplan", p, JSONstringify(Get(pg.testPlan)))
                   ELSE st,
                 FALSE)
    [] pg.name = "CoverageTracker" ->
         LET loaded == CoverageTrackerLoad(st, p, pg)
         IN  Outcome(loaded, CoverageTrackerSave(CoverageTrackerSave(st, p, pg), p, loaded),
                     FALSE)
    [] pg.name = "ComparisonTool" ->
         LET loaded == ComparisonToolLoad(st, p, pg)
         IN  Outcome(loaded, ComparisonToolSave(ComparisonToolSave(st, p, pg), p, loaded), FALSE)
    [] pg.name = "RegressionRunner" -> RegressionRunnerEffects(st, p, pg)
    [] pg.name = "SummaryGenerator" -> SummaryGeneratorLoad(st, p, pg)
    [] pg.name = "BugWriter" -> BugWriterEffects(st, p, pg)
    [] pg.name = "SessionLogger" -> SessionLoggerEffects(st, p, pg)
    [] pg.name = "QAAssistant" -> QAAssistantEffects(st, p, pg)
    [] pg.name = "ReproduceHelper" -> Outcome(ReproduceHelperLoad(st, p, pg), st, FALSE)
    [] OTHER -> Outcome(pg, st, FALSE)

\* The effects with project among their dependencies, in declaration order,
\* run with the cells of the render that scheduled them; a save effect runs
\* again after the render its load effect caused.
ProjectEffects(st, p, pg) ==
  CASE pg.name = "TestMapper" -> Outcome(TestMapperLoad(st, p, pg), st, FALSE)
    [] pg.name = "TestCaseGenerator" -> Outcome(TestCaseGeneratorLoad(st, p, pg), st, FALSE)
    [] pg.name = "CoverageTracker" ->
         LET loaded == CoverageTrackerLoad(st, p, pg)
         IN  Outcome(loaded, CoverageTrackerSave(CoverageTrackerSave(st, p, pg), p, loaded),
                     FALSE)
    [] pg.name = "ComparisonTool" ->
         LET loaded == ComparisonToolLoad(st, p, pg)
         IN  Outcome(loaded, ComparisonToolSave(ComparisonToolSave(st, p, pg), p, loaded), FALSE)
    [] pg.name = "RegressionRunner" -> RegressionRunnerEffects(st, p, pg)
    [] pg.name = "SummaryGenerator" -> SummaryGeneratorLoad(st, p, pg)
    [] pg.name = "BugWriter" -> BugWriterEffects(st, p, pg)
    [] pg.name = "SessionLogger" -> SessionLoggerEffects(st, p, pg)
    [] pg.name = "QAAssistant" -> QAAssistantEffects(st, p, pg)
    [] pg.name = "ReproduceHelper" -> Outcome(ReproduceHelperLoad(st, p, pg), st, FALSE)
    [] OTHER -> Outcome(pg, st, FALSE)

RenderThrows(pg, p, key) ==
  CASE pg.name = "TestMapper" -> TestMapperRenderThrows(pg, p)
    [] pg.name = "TestCaseGenerator" -> TestCaseGeneratorRenderThrows(pg, p, key)
    [] OTHER -> FALSE

\* The state after a handler and its effects: an exception that escaped an
\* effect or the render unmounts the whole tree.
Commit(o, p, infl) ==
  /\ store' = o.store
  /\ IF o.threw \/ RenderThrows(o.page, p, apiKey)
       THEN /\ page' = Crashed
            /\ inflight' = Orphan(infl)
            /\ uncaught' = TRUE
       ELSE /\ page' = o.page
            /\ inflight' = infl
            /\ UNCHANGED uncaught

\* Sidebar handleSelectProject -> onProjectChange(path)
SelectProject(p) ==
  /\ page.name # "Crashed"
  /\ p # currentProject
  /\ currentProject' = p
  /\ Commit(ProjectEffects(store, p, page), p, inflight)
  /\ UNCHANGED <<apiKey, chat, probe>>

\* A NavLink of the sidebar: the page is unmounted, the next one mounted
Navigate(name) ==
  /\ page.name # "Crashed"
  /\ name # page.name
  /\ Commit(ProjectEffects(store, currentProject, InitialCells(name)),
            currentProject, Orphan(inflight))
  /\ UNCHANGED <<currentProject, apiKey, chat, probe>>

\* localStorage edited from outside the pages (DevTools is open in
\* development builds): a pipeline artifact removed or truncated
StorageTamper(stage, p, v) ==
  /\ page.name # "Crashed"
  /\ store[stage][p] # v
  /\ store' = [store EXCEPT ![stage][p] = v]
  /\ UNCHANGED <<currentProject, page, inflight, apiKey, uncaught, chat, probe>>

----------------------------------------------------------------------------
(* Test Mapper handlers *)

\* saveToCache: the project is the one of the render that started the run
saveToCache(st, p, analysisResult, files) ==
  IF p # NoProject
    THEN setItem(st, "testmapper", p, JSONstringify(JCache(analysisResult, files)))
    ELSE st

\* clearCache, offered while a result is shown and no run is loading
clearCacheStep ==
  /\ page.name = "TestMapper"
  /\ currentProject # NoProject
  /\ IsSome(page.result)
  /\ ~page.loading
  /\ Commit(Outcome([page EXCEPT !.result = None, !.filesScanned = 0, !.cachedAt = FALSE],
                    removeItem(store, "testmapper", currentProject), FALSE),
            currentProject, inflight)
  /\ UNCHANGED <<currentProject, apiKey, chat>>

clearCache ==
  /\ clearCacheStep
  /\ UNCHANGED probe

\* runAnalysis up to its first await
runAnalysis ==
  /\ page.name = "TestMapper"
  /\ currentProject # NoProject
  /\ ~page.loading
  /\ IF ~hasApiKey(apiKey)
       THEN Commit(Outcome([page EXCEPT !.error = "nokey"], store, FALSE),
                   currentProject, inflight)
       ELSE /\ BagCardinality(inflight) < MaxInflight
            /\ Commit(Outcome([page EXCEPT !.loading = TRUE, !.error = "", !.result = None],
                              store, FALSE),
                      currentProject, inflight (+) SetToBag({Request("tm", currentProject)}))
  /\ UNCHANGED <<currentProject, apiKey, chat, probe>>

\* The parse step keeping the raw response when no JSON is found in it
ParseAnalysis_SavesRaw(st, p, pg, response, files) ==
  LET jsonMatch == RegexMatch(response)
  IN  IF IsSome(jsonMatch)
        THEN LET r == JSONparse(Get(jsonMatch))
             IN  IF r.ok
                   THEN Outcome([pg EXCEPT !.result = Some(r.val), !.cachedAt = TRUE],
                                saveToCache(st, p, r.val, files), FALSE)
                   ELSE Outcome([pg EXCEPT !.error = "badjson"], st, FALSE)
        ELSE Outcome([pg EXCEPT !.error = "noparse"],
                     IF p # NoProject THEN setItem(st, "testmapper", p, response) ELSE st,
                     FALSE)

\* The parse step of runAnalysis on the response text: the cells and the store
ParseAnalysis(st, p, pg, response, files) ==
  LET jsonMatch == RegexMatch(response)
  IN  IF IsSome(jsonMatch)
        THEN LET r == JSONparse(Get(jsonMatch))
             IN  IF r.ok
                   THEN Outcome([pg EXCEPT !.result = Some(r.val), !.cachedAt = TRUE],
                                saveToCache(st, p, r.val, files), FALSE)
                   ELSE Outcome([pg EXCEPT !.error = "badjson"], st, FALSE)
        ELSE Outcome([pg EXCEPT !.error = "noparse"], st, FALSE)

\* runAnalysis after its awaits.  kind: "nofiles" (empty project), "fail"
\* (readProjectFiles, files = 0, or analyzeCode rejected), "text".
AnalysisOutcome(st, r, pg, kind, files, response) ==
  LET o == CASE kind = "nofiles" ->
                  Outcome([pg EXCEPT !.filesScanned = 0, !.error = "nofiles"], st, FALSE)
             [] kind = "fail" ->
                  Outcome([pg EXCEPT !.filesScanned = IF files > 0 THEN files ELSE @,
                                     !.error = "failed"], st, FALSE)
             [] OTHER ->
                  ParseAnalysis(st, r.project, [pg EXCEPT !.filesScanned = files],
                                response, files)
  IN  Outcome([o.page EXCEPT !.loading = FALSE], o.store, o.threw)

\* A Test Mapper request settles.  The cells change only if the component
\* that issued it is still mounted; the store is written either way.
AnalysisSettlesStep(r, kind, files, response) ==
  /\ BagIn(r, inflight)
  /\ r.stage = "tm"
  /\ kind = "nofiles" => files = 0 /\ response = <<>>
  /\ kind = "fail" => response = <<>>
  /\ kind = "text" => files > 0
  /\ LET o == AnalysisOutcome(store, r, IF r.alive THEN page ELSE TestMapperInit,
                              kind, files, response)
     IN  Commit(Outcome(IF r.alive THEN o.page ELSE page, o.store, o.threw),
                currentProject, inflight (-) SetToBag({r}))
  /\ UNCHANGED <<currentProject, apiKey, chat>>

AnalysisSettles(r, kind, files, response) ==
  /\ AnalysisSettlesStep(r, kind, files, response)
  /\ UNCHANGED probe

----------------------------------------------------------------------------
(* Test Case Generator handlers *)

\* generateTestCases trusting the page's hasAnalysis flag instead of reading
\* the store again
GenerateHead_NoGate(st, p, pg) ==
  [page |-> [pg EXCEPT !.loading = TRUE, !.error = ""], send |-> TRUE]

\* The synchronous head of generateTestCases: the gate on the stored
\* analysis and the prompt built from it.  send = TRUE when the request is
\* issued.
GenerateHead(st, p, pg) ==
  LET cached == getItem(st, "testmapper", p)
  IN  IF ~IsSome(cached)
        THEN [page |-> [pg EXCEPT !.error = "noanalysis"], send |-> FALSE]
        ELSE LET r == JSONparse(Get(cached))
                 usable == /\ r.ok
                           /\ IsSome(r.val.result)
                           /\ IsSome(Get(r.val.result).arr)
             IN  IF usable
                   THEN [page |-> [pg EXCEPT !.loading = TRUE, !.error = ""], send |-> TRUE]
                   \* JSON.parse or result.flows.length threw: catch, finally
                   ELSE [page |-> [pg EXCEPT !.loading = FALSE, !.error = "failed"],
                         send |-> FALSE]

\* generateTestCases up to its await; the button is rendered only with an
\* API key and hasAnalysis
generateTestCases ==
  /\ page.name = "TestCaseGenerator"
  /\ currentProject # NoProject
  /\ hasApiKey(apiKey)
  /\ page.hasAnalysis
  /\ ~page.loading
  /\ LET h == GenerateHead(store, currentProject, page)
     IN  /\ h.send => BagCardinality(inflight) < MaxInflight
         /\ Commit(Outcome(h.page, store, FALSE), currentProject,
                   IF h.send THEN inflight (+) SetToBag({Request("tcg", currentProject)})
                             ELSE inflight)
  /\ UNCHANGED <<currentProject, apiKey, chat, probe>>

\* The parse step adding the new test cases to the cached plan
ParseTestPlan_Merge(st, p, pg, response) ==
  LET jsonMatch == RegexMatch(response)
      prev == getItem(st, "testplan", p)
      kept == IF IsSome(prev) /\ JSONparse(Get(prev)).ok
                THEN TestCasesOr(JSONparse(Get(prev)).val) ELSE <<>>
  IN  IF IsSome(jsonMatch)
        THEN LET r == JSONparse(Get(jsonMatch))
                 merged == IF r.ok /\ IsSome(r.val.arr)
                             THEN JObj(Some(SelectSeq(kept, LAMBDA id :
                                              \A i \in 1..Len(Get(r.val.arr)) :
                                                Get(r.val.arr)[i] # id)
                                            \o Get(r.val.arr)))
                             ELSE r.val
             IN  IF r.ok
                   THEN Outcome([pg EXCEPT !.testPlan = Some(merged)],
                                setItem(st, "testplan", p, JSONstringify(merged)), FALSE)
                   ELSE Outcome([pg EXCEPT !.error = "failed"], st, FALSE)
        ELSE Outcome([pg EXCEPT !.error = "noparse"], st, FALSE)

\* The parse step of generateTestCases: the plan is cached under the
\* project of the render that started the run
ParseTestPlan(st, p, pg, response) ==
  LET jsonMatch == RegexMatch(response)
  IN  IF IsSome(jsonMatch)
        THEN LET r == JSONparse(Get(jsonMatch))
             IN  IF r.ok
                   THEN Outcome([pg EXCEPT !.testPlan = Some(r.val)],
                                setItem(st, "testplan", p, JSONstringify(r.val)), FALSE)
                   ELSE Outcome([pg EXCEPT !.error = "failed"], st, FALSE)
        ELSE Outcome([pg EXCEPT !.error = "noparse"], st, FALSE)

\* A run that also drops the coverage recorded against the previous plan
GenerationOutcome_ResetsCoverage(st, r, pg, kind, response) ==
  LET o == IF kind = "fail"
             THEN Outcome([pg EXCEPT !.error = "failed"], st, FALSE)
             ELSE ParseTestPlan(st, r.project, pg, response)
  IN  Outcome([o.page EXCEPT !.loading = FALSE],
              IF o.store # st THEN removeItem(o.store, "coverage", r.project) ELSE o.store,
              o.threw)

\* generateTestCases after its await
GenerationOutcome(st, r, pg, kind, response) ==
  LET o == IF kind = "fail"
             THEN Outcome([pg EXCEPT !.error = "failed"], st, FALSE)
             ELSE ParseTestPlan(st, r.project, pg, response)
  IN  Outcome([o.page EXCEPT !.loading = FALSE], o.store, o.threw)

\* A Test Case Generator request settles
GenerationSettlesStep(r, kind, response) ==
  /\ BagIn(r, inflight)
  /\ r.stage = "tcg"
  /\ kind = "fail" => response = <<>>
  /\ LET o == GenerationOutcome(store, r, IF r.alive THEN page ELSE TestCaseGeneratorInit,
                                kind, response)
     IN  Commit(Outcome(IF r.alive THEN o.page ELSE page, o.store, o.threw),
                currentProject, inflight (-) SetToBag({r}))
  /\ UNCHANGED <<currentProject, apiKey, chat>>

GenerationSettles(r, kind, response) ==
  /\ GenerationSettlesStep(r, kind, response)
  /\ UNCHANGED probe


\* clearTestPlan: the Clear button stays enabled while a run is loading
clearTestPlanStep ==
  /\ page.name = "TestCaseGenerator"
  /\ currentProject # NoProject
  /\ hasApiKey(apiKey)
  /\ page.hasAnalysis
  /\ IsSome(page.testPlan)
  /\ Commit(Outcome([page EXCEPT !.testPlan = None],
                    removeItem(store, "testplan", currentProject), FALSE),
            currentProject, inflight)
  /\ UNCHANGED <<currentProject, apiKey, chat>>

clearTestPlan ==
  /\ clearTestPlanStep
  /\ UNCHANGED probe

----------------------------------------------------------------------------
(* The pipeline: Test Mapper -> Test Case Generator -> the pages that read *)
(* the test plan                                                           *)

InitPipeline ==
  /\ store = EmptyStore
  /\ currentProject = NoProject
  /\ page = Dashboard
  /\ inflight = EmptyBag
  /\ apiKey \in {None, Some(<<"sk-ant-", "k">>)}
  /\ uncaught = FALSE
  /\ chat = <<>>
  /\ probe = None

NextPipeline ==
  \/ \E p \in Projects : SelectProject(p)
  \/ \E name \in PipelinePages : Navigate(name)
  \/ runAnalysis
  \/ \E r \in BagToSet(inflight) : AnalysisSettles(r, "nofiles", 0, <<>>)
  \/ \E r \in BagToSet(inflight), files \in 0..Len(FileToks) :
       AnalysisSettles(r, "fail", files, <<>>)
  \/ \E r \in BagToSet(inflight), files \in 1..Len(FileToks), response \in AnalysisResponses :
       AnalysisSettles(r, "text", files, response)
  \/ clearCache
  \/ generateTestCases
  \/ \E r \in BagToSet(inflight) : GenerationSettles(r, "fail", <<>>)
  \/ \E r \in BagToSet(inflight), response \in Responses :
       GenerationSettles(r, "text", response)
  \/ clearTestPlan

Spec == InitPipeline /\ [][NextPipeline]_vars

NextTampered ==
  \/ NextPipeline
  \/ \E p \in Projects, v \in {None, Some(Corrupt)} : StorageTamper("testmapper", p, v)

\* The pipeline with its analysis artifact open to edits from outside
SpecTampered == InitPipeline /\ [][NextTampered]_vars

----------------------------------------------------------------------------
(* Stage gating *)

\* C6: a generateTestCases triggered while no analysis is stored for the
\* current project sends no request and writes nothing, the page's
\* hasAnalysis flag notwithstanding.
C6_NoAnalysisNoRequest ==
  [][(generateTestCases /\ ~IsSome(getItem(store, "testmapper", currentProject)))
       => (inflight' = inflight /\ store' = store)]_vars

\* The trigger was pressed with a stale hasAnalysis and hit the gate
C6_StaleGateHit ==
  /\ page.name = "TestCaseGenerator"
  /\ page.hasAnalysis
  /\ page.error = "noanalysis"
  /\ ~IsSome(getItem(store, "testmapper", currentProject))

PlanWritten(p) ==
  /\ getItem(store', "testplan", p) # getItem(store, "testplan", p)
  /\ IsSome(getItem(store', "testplan", p))

\* C7 as claimed: whenever a test plan is persisted for a project, an
\* analysis for that project is in the store.
C7_PlanWrittenUnderAnalysis ==
  [][\A p \in Projects : PlanWritten(p) => IsSome(getItem(store', "testmapper", p))]_vars

\* C7 as amended: a generate request is issued only while the analysis of
\* its project is stored, and a test plan is persisted only when such a
\* request settles (the analysis may be gone by then).
C7_PlanWrittenByGatedRun ==
  [][/\ \A p \in Projects :
          PlanWritten(p) =>
            \E r \in BagToSet(inflight) :
              /\ r.stage = "tcg"
              /\ r.project = p
              /\ CopiesIn(r, inflight') < CopiesIn(r, inflight)
     /\ \A r \in BagToSet(inflight') :
          (r.stage = "tcg" /\ r.alive /\ CopiesIn(r, inflight') > CopiesIn(r, inflight))
            => IsSome(getItem(store, "testmapper", r.project))]_vars

\* A plan in the store whose analysis is gone
C7_PlanOutlivesAnalysis ==
  \E p \in Projects :
    /\ IsSome(getItem(store, "testplan", p))
    /\ ~IsSome(getItem(store, "testmapper", p))

----------------------------------------------------------------------------
(* Hand-off of the test plan *)

\* History of the last write of a pipeline artifact: the key, the value
\* the stage held in memory when it wrote, the text it replaced, and whether
\* the component that wrote was still mounted.
Written(stage, p, val, prev, new, alive) ==
  Some([stage |-> stage, project |-> p, val |-> val, prev |-> prev, new |-> new,
        alive |-> alive])

Forget(stage, p) ==
  IF IsSome(probe) /\ Get(probe).stage = stage /\ Get(probe).project = p
    THEN None ELSE probe

AnalysisSettlesRecorded(r, kind, files, response) ==
  /\ AnalysisSettlesStep(r, kind, files, response)
  /\ LET o == AnalysisOutcome(store, r, TestMapperInit, kind, files, response)
     IN  probe' = IF o.store # store
                    THEN Written("testmapper", r.project, JCache(Get(o.page.result), files),
                                 getItem(store, "testmapper", r.project),
                                 getItem(store', "testmapper", r.project), r.alive)
                    ELSE probe

GenerationSettlesRecorded(r, kind, response) ==
  /\ GenerationSettlesStep(r, kind, response)
  /\ LET o == GenerationOutcome(store, r, TestCaseGeneratorInit, kind, response)
     IN  probe' = IF o.store # store
                    THEN Written("testplan", r.project, Get(o.page.testPlan),
                                 getItem(store, "testplan", r.project),
                                 getItem(store', "testplan", r.project), r.alive)
                    ELSE probe

clearCacheRecorded ==
  /\ clearCacheStep
  /\ probe' = Forget("testmapper", currentProject)

clearTestPlanRecorded ==
  /\ clearTestPlanStep
  /\ probe' = Forget("testplan", currentProject)

NextHistory ==
  \/ \E p \in Projects : SelectProject(p)
  \/ \E name \in PipelinePages : Navigate(name)
  \/ runAnalysis
  \/ \E r \in BagToSet(inflight), files \in 1..Len(FileToks), response \in AnalysisResponses :
       AnalysisSettlesRecorded(r, "text", files, response)
  \/ clearCacheRecorded
  \/ generateTestCases
  \/ \E r \in BagToSet(inflight), response \in Responses :
       GenerationSettlesRecorded(r, "text", response)
  \/ clearTestPlanRecorded

\* The pipeline with a record of its last write
SpecHistory == InitPipeline /\ [][NextHistory]_vars

\* The JSON text of a test plan whose testCases are ids
PlanText(ids) == <<"{", "[">> \o ids \o <<"]", "}">>

Proses == {<<>>, <<"x">>}

IdLists == {<<"T1">>, <<"T2", "T1">>}

PlanReaders == {"CoverageTracker", "ComparisonTool", "RegressionRunner"}

\* A step that runs the load effect of a page reading the test plan
PlanReaderLoads ==
  /\ page'.name \in PlanReaders
  /\ page.name # page'.name \/ currentProject' # currentProject
  /\ currentProject' # NoProject

\* C8: a response of prose around a JSON object with a testCases list makes
\* the generator persist exactly that object, and Coverage Tracker,
\* Comparison Tool and Regression Runner each read exactly that list when
\* they next load the project.
C8_PlanHandedOff ==
  [][/\ \A r \in BagToSet(inflight), pre \in Proses, ids \in IdLists :
          GenerationSettles(r, "text", pre \o PlanText(ids))
            => getItem(store', "testplan", r.project) = Some(PlanText(ids))
     /\ PlanReaderLoads =>
          \A ids \in IdLists :
            getItem(store, "testplan", currentProject') = Some(PlanText(ids))
              => page'.testCases = ids]_vars

\* Each reader showing the two test cases of the stored plan
C8_CoverageReadsPlan ==
  /\ page.name = "CoverageTracker"
  /\ page.testCases = <<"T2", "T1">>
  /\ getItem(store, "testplan", currentProject) = Some(PlanText(<<"T2", "T1">>))

\* C9: a generation that settles on a project with a stored plan leaves the
\* new plan alone in the store: its test cases are those of the response and
\* no other.
C9_RegenerationReplaces ==
  [][\A r \in BagToSet(inflight), pre \in Proses, ids \in IdLists :
       (/\ IsSome(getItem(store, "testplan", r.project))
        /\ GenerationSettlesRecorded(r, "text", pre \o PlanText(ids)))
         => LET new == JSONparse(Get(getItem(store', "testplan", r.project)))
            IN  /\ new.ok
                /\ TestCasesOr(new.val) = ids]_vars

\* A plan of T2 and T1 was replaced by a plan of T1 alone
C9_PlanReplaced ==
  /\ IsSome(probe)
  /\ Get(probe).stage = "testplan"
  /\ Get(probe).prev = Some(PlanText(<<"T2", "T1">>))
  /\ Get(probe).new = Some(PlanText(<<"T1">>))
  /\ getItem(store, "testplan", Get(probe).project) = Some(PlanText(<<"T1">>))

----------------------------------------------------------------------------
(* Round trip through the store *)

\* A step that mounts the page of the last written artifact on its project,
\* or switches that page to its project, nothing having touched the key
LoadsLastWritten ==
  /\ IsSome(probe)
  /\ probe' = probe
  /\ currentProject' = Get(probe).project
  /\ page'.name = IF Get(probe).stage = "testmapper" THEN "TestMapper"
                                                     ELSE "TestCaseGenerator"
  /\ page.name # page'.name \/ currentProject' # currentProject

----------------------------------------------------------------------------
(* Bug Writer handlers *)

Frame == UNCHANGED <<currentProject, apiKey, chat, probe>>

\* The first of names that the list does not hold yet
Fresh(names, items) ==
  names[CHOOSE i \in 1..Len(names) :
          /\ ~Has(items, names[i])
          /\ \A j \in 1..(i - 1) : Has(items, names[j])]

\* "+ Manual Entry"
openForm ==
  /\ page.name = "BugWriter"
  /\ currentProject # NoProject
  /\ ~page.showForm
  /\ Commit(Outcome([page EXCEPT !.showForm = TRUE], store, FALSE), currentProject, inflight)
  /\ Frame

\* saveBug with a title typed into the form; then the save effect
saveBug ==
  /\ page.name = "BugWriter"
  /\ currentProject # NoProject
  /\ page.showForm
  /\ Len(page.bugs) < MaxBugs
  /\ LET bug == Fresh(BugNames[currentProject], page.bugs)
         bugs == Append(page.bugs, bug)
     IN  Commit(Outcome([page EXCEPT !.bugs = bugs, !.showForm = FALSE],
                        SaveList(store, "bugs", currentProject, bugs), FALSE),
                currentProject, inflight)
  /\ Frame

\* deleteBug, confirmed; then the save effect
deleteBug(id) ==
  /\ page.name = "BugWriter"
  /\ currentProject # NoProject
  /\ Has(page.bugs, id)
  /\ LET updated == Without(page.bugs, id)
         removed == IF Len(updated) = 0 THEN removeItem(store, "bugs", currentProject)
                                        ELSE store
     IN  Commit(Outcome([page EXCEPT !.bugs = updated],
                        SaveList(removed, "bugs", currentProject, updated), FALSE),
                currentProject, inflight)
  /\ Frame

\* structureWithAI up to its await, with notes typed into the box
structureWithAI ==
  /\ page.name = "BugWriter"
  /\ currentProject # NoProject
  /\ ~page.showForm
  /\ ~page.loading
  /\ hasApiKey(apiKey)
  /\ BagCardinality(inflight) < MaxInflight
  /\ Commit(Outcome([page EXCEPT !.loading = TRUE, !.alerted = FALSE], store, FALSE),
            currentProject, inflight (+) SetToBag({Request("bug", currentProject)}))
  /\ Frame

\* structureWithAI after its await
StructureSettles(r, kind, response) ==
  /\ BagIn(r, inflight)
  /\ r.stage = "bug"
  /\ kind = "fail" => response = <<>>
  /\ LET parsed == IF kind = "fail" THEN [page EXCEPT !.alerted = TRUE]
                                    ELSE StructureParse(page, response)
     IN  Commit(Outcome(IF r.alive THEN [parsed EXCEPT !.loading = FALSE] ELSE page,
                        store, FALSE),
                currentProject, inflight (-) SetToBag({r}))
  /\ Frame

----------------------------------------------------------------------------
(* Session Logger handlers *)

startSession ==
  /\ page.name = "SessionLogger"
  /\ currentProject # NoProject
  /\ ~IsSome(page.activeSession)
  /\ Len(page.sessions) < MaxSessions
  /\ LET taken == {SessionId(page.sessions[i]) : i \in 1..Len(page.sessions)}
         id == CHOOSE i \in 1..Len(SessionNames) :
                 i \notin taken /\ \A j \in 1..(i - 1) : j \in taken
         newSession == SessionNames[id][1]
         sessions == Append(page.sessions, newSession)
     IN  Commit(Outcome([page EXCEPT !.sessions = sessions,
                                     !.activeSession = Some(newSession)],
                        SaveList(store, "sessions", currentProject, sessions), FALSE),
                currentProject, inflight)
  /\ Frame

endSession ==
  /\ page.name = "SessionLogger"
  /\ currentProject # NoProject
  /\ IsSome(page.activeSession)
  /\ LET updated == MapSessions(page.sessions, SessionId(Get(page.activeSession)), "endTime")
     IN  Commit(Outcome([page EXCEPT !.sessions = updated, !.activeSession = None],
                        SaveList(store, "sessions", currentProject, updated), FALSE),
                currentProject, inflight)
  /\ Frame

\* addTextNote -> addEntry with a note typed into the box
addTextNote ==
  /\ page.name = "SessionLogger"
  /\ currentProject # NoProject
  /\ IsSome(page.activeSession)
  /\ LET updated == MapSessions(page.sessions, SessionId(Get(page.activeSession)), "entries")
     IN  Commit(Outcome([page EXCEPT !.sessions = updated,
                                     !.activeSession = Some(WithEntry(Get(page.activeSession)))],
                        SaveList(store, "sessions", currentProject, updated), FALSE),
                currentProject, inflight)
  /\ Frame

\* clearSessions, confirmed: "Clear All" heads the list of ended sessions
clearSessions ==
  /\ page.name = "SessionLogger"
  /\ currentProject # NoProject
  /\ \E i \in 1..Len(page.sessions) : HasEndTime(page.sessions[i])
  /\ Commit(Outcome([page EXCEPT !.sessions = <<>>, !.activeSession = None],
                    SaveList(removeItem(store, "sessions", currentProject),
                             "sessions", currentProject, <<>>), FALSE),
            currentProject, inflight)
  /\ Frame

----------------------------------------------------------------------------
(* QA Assistant handlers *)

AssistantFrame == UNCHANGED <<currentProject, apiKey, probe>>

\* The system prompt of a chat request: the custom prompt, then, if there
\* are memories, a heading, one "- content" line for each, and a closing line
systemPrompt(memories) ==
  <<"prompt">> \o (IF Len(memories) > 0
                     THEN <<"## notes">> \o [i \in 1..Len(memories) |-> "- " \o memories[i]]
                            \o <<"use">>
                     ELSE <<>>)

\* A chat request carries its system prompt
ChatRequest(p, system) ==
  [stage |-> "chat", project |-> p, alive |-> TRUE, system |-> system]

\* sendMessage up to its await, with text typed into the box; the
\* conversation is saved by the effect on messages
sendMessage ==
  /\ page.name = "QAAssistant"
  /\ hasApiKey(apiKey)
  /\ ~page.loading
  /\ Len(page.messages) < MaxChat
  /\ BagCardinality(inflight) < MaxInflight
  /\ LET messages == Append(page.messages, "user")
     IN  /\ Commit(Outcome([page EXCEPT !.messages = messages, !.loading = TRUE], store, FALSE),
                   currentProject,
                   inflight (+) SetToBag({ChatRequest(currentProject,
                                                      systemPrompt(page.memories))}))
         /\ chat' = messages
  /\ AssistantFrame

\* sendMessage after its await: the reply, or the error text, is appended
ChatSettles(r) ==
  /\ BagIn(r, inflight)
  /\ r.stage = "chat"
  /\ LET messages == Append(page.messages, "assistant")
     IN  /\ Commit(Outcome(IF r.alive THEN [page EXCEPT !.messages = messages,
                                                        !.loading = FALSE]
                                      ELSE page, store, FALSE),
                   currentProject, inflight (-) SetToBag({r}))
         /\ chat' = IF r.alive THEN messages ELSE chat
  /\ AssistantFrame

\* The save button under an assistant message: addMemory(snippet)
addMemory ==
  /\ page.name = "QAAssistant"
  /\ hasApiKey(apiKey)
  /\ currentProject # NoProject
  /\ Has(page.messages, "assistant")
  /\ Len(page.memories) < MaxMemories
  /\ LET memories == Append(page.memories, Fresh(MemoryNames[currentProject], page.memories))
     IN  Commit(Outcome([page EXCEPT !.memories = memories],
                        SaveList(store, "memories", currentProject, memories), FALSE),
                currentProject, inflight)
  /\ Frame

\* The Memories button
toggleMemories ==
  /\ page.name = "QAAssistant"
  /\ hasApiKey(apiKey)
  /\ currentProject # NoProject
  /\ Len(page.memories) > 0
  /\ Commit(Outcome([page EXCEPT !.showMemories = ~@], store, FALSE), currentProject, inflight)
  /\ Frame

removeMemory(id) ==
  /\ page.name = "QAAssistant"
  /\ hasApiKey(apiKey)
  /\ page.showMemories
  /\ Has(page.memories, id)
  /\ LET updated == Without(page.memories, id)
         removed == IF currentProject # NoProject /\ Len(updated) = 0
                      THEN removeItem(store, "memories", currentProject) ELSE store
     IN  Commit(Outcome([page EXCEPT !.memories = updated],
                        SaveList(removed, "memories", currentProject, updated), FALSE),
                currentProject, inflight)
  /\ Frame

clearAllMemories ==
  /\ page.name = "QAAssistant"
  /\ hasApiKey(apiKey)
  /\ page.showMemories
  /\ Len(page.memories) > 0
  /\ Commit(Outcome([page EXCEPT !.memories = <<>>],
                    SaveList(IF currentProject # NoProject
                               THEN removeItem(store, "memories", currentProject) ELSE store,
                             "memories", currentProject, <<>>), FALSE),
            currentProject, inflight)
  /\ Frame

----------------------------------------------------------------------------
(* Project isolation *)

StructureResponses == { <<"x">>, <<"{", "x", "}">>, <<"x", "{", "}">> }

NextBugs ==
  \/ \E p \in Projects : SelectProject(p)
  \/ \E name \in {"BugWriter", "Dashboard"} : Navigate(name)
  \/ openForm
  \/ saveBug
  \/ \E id \in UNION {{BugNames[p][i] : i \in 1..Len(BugNames[p])} : p \in Projects} :
       deleteBug(id)
  \/ structureWithAI
  \/ \E r \in BagToSet(inflight) : StructureSettles(r, "fail", <<>>)
  \/ \E r \in BagToSet(inflight), response \in StructureResponses :
       StructureSettles(r, "text", response)

\* Bug Writer and the project selector
SpecBugs == InitPipeline /\ [][NextBugs]_vars

BugsOf(p) == {BugNames[p][i] : i \in 1..Len(BugNames[p])}

\* C1: the bugs stored under a project's key were all written while that
\* project was the current one.
C1_StoredBugsAreOwn ==
  \A p \in Projects :
    \A i \in 1..Len(LoadList(store, "bugs", p)) :
      LoadList(store, "bugs", p)[i] \in BugsOf(p)

----------------------------------------------------------------------------
(* Clearing an artifact *)

ClearPages == {"TestMapper", "TestCaseGenerator", "SessionLogger", "QAAssistant"}

GoodAnalysis == <<"x", "{", "[", "T1", "]", "}">>

GoodPlan == <<"{", "[", "T2", "T1", "]", "}">>

NextClear ==
  \/ \E p \in Projects : SelectProject(p)
  \/ \E name \in ClearPages : Navigate(name)
  \/ runAnalysis
  \/ \E r \in BagToSet(inflight) : AnalysisSettles(r, "text", 1, GoodAnalysis)
  \/ clearCache
  \/ generateTestCases
  \/ \E r \in BagToSet(inflight) : GenerationSettles(r, "text", GoodPlan)
  \/ clearTestPlan
  \/ startSession
  \/ endSession
  \/ addTextNote
  \/ clearSessions
  \/ addMemory
  \/ toggleMemories
  \/ \E id \in AllMemories : removeMemory(id)
  \/ clearAllMemories

InitClear ==
  /\ store = EmptyStore
  /\ currentProject = NoProject
  /\ page = Dashboard
  /\ inflight = EmptyBag
  /\ apiKey = Some(<<"sk-ant-", "k">>)
  /\ uncaught = FALSE
  /\ chat = <<"user", "assistant">>      \* a conversation saved earlier
  /\ probe = None

\* The four pages with a clear action
SpecClear == InitClear /\ [][NextClear]_vars

\* The key a page loads into its cells, and whether the cells are empty
ClearedKey(name) ==
  CASE name = "TestMapper" -> "testmapper"
    [] name = "TestCaseGenerator" -> "testplan"
    [] name = "SessionLogger" -> "sessions"
    [] OTHER -> "memories"

ShowsEmpty(pg) ==
  CASE pg.name = "TestMapper" -> ~IsSome(pg.result)
    [] pg.name = "TestCaseGenerator" -> ~IsSome(pg.testPlan)
    [] pg.name = "SessionLogger" -> pg.sessions = <<>> /\ ~IsSome(pg.activeSession)
    [] pg.name = "QAAssistant" -> pg.memories = <<>>
    [] OTHER -> TRUE

ClearStep == clearCache \/ clearTestPlan \/ clearSessions \/ clearAllMemories

\* A mount of a clear page on a project, or its switch to one
ClearPageLoads ==
  /\ page'.name \in ClearPages
  /\ page.name # page'.name \/ currentProject' # currentProject
  /\ currentProject' # NoProject

----------------------------------------------------------------------------
(* Corrupt artifacts *)

IsCorrupt(st, stage, p) ==
  IsSome(getItem(st, stage, p)) /\ ~JSONparse(Get(getItem(st, stage, p))).ok

\* What a load leaves on the screen, an escaped exception included
Shown(o, p) ==
  IF o.threw \/ RenderThrows(o.page, p, apiKey) THEN Crashed ELSE o.page

\* C5: mounting a page on a project whose stored analysis is not valid JSON
\* lets no exception escape: the page comes up, as it does when the analysis
\* is absent.
C5_CorruptLoadRaisesNothing ==
  [][\A name \in PipelinePages :
       (/\ Navigate(name)
        /\ currentProject # NoProject
        /\ IsCorrupt(store, "testmapper", currentProject)
        /\ Shown(ProjectEffects(removeItem(store, "testmapper", currentProject),
                                currentProject, InitialCells(name)),
                 currentProject) # Crashed)
         => page' # Crashed]_vars

----------------------------------------------------------------------------
(* Storage keys, character by character *)

\* The characters a project path is drawn from: a separator of paths, the
\* separator of keys, a letter
PathChars == {"/", "-", "s"}

RECURSIVE PathsOfLen(_)
PathsOfLen(n) ==
  IF n = 0 THEN {<<>>}
  ELSE {Append(q, c) : q \in PathsOfLen(n - 1), c \in PathChars}

\* A project path is a non-empty string (an empty one is no project)
Paths == UNION {PathsOfLen(n) : n \in 1..MaxPathLen}

QaCafe == <<"q", "a", "-", "c", "a", "f", "e", "-">>

StageChars ==
  [testmapper |-> <<"t", "e", "s", "t", "m", "a", "p", "p", "e", "r">>,
   testplan |-> <<"t", "e", "s", "t", "p", "l", "a", "n">>,
   coverage |-> <<"c", "o", "v", "e", "r", "a", "g", "e">>,
   bugs |-> <<"b", "u", "g", "s">>,
   sessions |-> <<"s", "e", "s", "s", "i", "o", "n", "s">>,
   regression |-> <<"r", "e", "g", "r", "e", "s", "s", "i", "o", "n">>,
   snapshots |-> <<"s", "n", "a", "p", "s", "h", "o", "t", "s">>,
   repro |-> <<"r", "e", "p", "r", "o">>,
   memories |-> <<"m", "e", "m", "o", "r", "i", "e", "s">>]

GlobalKeys ==
  {<<"c", "l", "a", "u", "d", "e", "_", "a", "p", "i", "_", "k", "e", "y">>,
   <<"q", "a", "-", "c", "a", "f", "e", "-", "a", "s", "s", "i", "s", "t", "a", "n", "t", "-", "m", "e", "s", "s", "a", "g", "e", "s">>,
   <<"q", "a", "-", "c", "a", "f", "e", "-", "a", "s", "s", "i", "s", "t", "a", "n", "t", "-", "d", "r", "a", "f", "t">>,
   <<"q", "a", "-", "c", "a", "f", "e", "-", "c", "u", "s", "t", "o", "m", "-", "p", "r", "o", "m", "p", "t">>}

\* The key made from the last segment of the path only
StorageKey_Basename(stage, project) ==
  LET slashes == {i \in 1..Len(project) : project[i] = "/"}
      from == IF slashes = {} THEN 1
              ELSE 1 + CHOOSE i \in slashes : \A j \in slashes : j <= i
  IN  QaCafe \o StageChars[stage] \o <<"-">> \o SubSeq(project, from, Len(project))

\* `qa-cafe-<stage>-${project}`
StorageKey(stage, project) == QaCafe \o StageChars[stage] \o <<"-">> \o project

KeyPairs == [stage : Stages, project : Paths]

InitKeys ==
  /\ store = EmptyStore
  /\ currentProject = NoProject
  /\ page = Dashboard
  /\ inflight = EmptyBag
  /\ apiKey = None
  /\ uncaught = FALSE
  /\ chat = <<>>
  /\ probe \in [first : KeyPairs, second : KeyPairs, keys : {None}]

\* Two pages build the keys of their artifacts
BuildKeys ==
  /\ ~IsSome(probe.keys)
  /\ probe' = [probe EXCEPT !.keys = Some(<<StorageKey(probe.first.stage, probe.first.project),
                                             StorageKey(probe.second.stage, probe.second.project)>>)]
  /\ UNCHANGED <<store, currentProject, page, inflight, apiKey, uncaught, chat>>

SpecKeys == InitKeys /\ [][BuildKeys]_vars

\* C4: different pairs of stage and project path have different keys, and
\* no key of a project is one of the global keys.
C4_KeysInjective ==
  IsSome(probe.keys) =>
    /\ probe.first # probe.second => Get(probe.keys)[1] # Get(probe.keys)[2]
    /\ Get(probe.keys)[1] \notin GlobalKeys

\* Keys built for two paths with the same last segment, one of them holding
\* the separator of keys
C4_SameBasename ==
  /\ IsSome(probe.keys)
  /\ probe.first.stage = probe.second.stage
  /\ probe.first.project = <<"/", "-">>
  /\ probe.second.project = <<"-">>
  /\ Get(probe.keys)[1] # Get(probe.keys)[2]

----------------------------------------------------------------------------
(* The parse step of every stage, on every text *)

\* The parse step of generateReproSteps
ReproParse(pg, response) ==
  LET jsonMatch == RegexMatch(response)
  IN  IF IsSome(jsonMatch)
        THEN LET r == JSONparse(Get(jsonMatch))
             IN  IF r.ok
                   THEN [pg EXCEPT !.reproSteps = Some(TestCasesOr(r.val))]   \* parsed.steps || []
                   ELSE [pg EXCEPT !.error = "failed"]                        \* catch
        ELSE [pg EXCEPT !.error = "noparse"]

\* core analyzeProject: JSON.parse of the whole response, with a fallback
\* that carries the raw response as its summary
analyzeProject(response) ==
  LET r == JSONparse(response)
  IN  IF r.ok THEN [fallback |-> FALSE, flows |-> TestCasesOr(r.val), summary |-> <<>>]
      ELSE [fallback |-> TRUE, flows |-> <<>>, summary |-> response]

RECURSIVE TextsOfLen(_)
TextsOfLen(n) ==
  IF n = 0 THEN {<<>>}
  ELSE {Append(t, c) : t \in TextsOfLen(n - 1), c \in Tokens}

\* Every response text of up to MaxTextLen tokens
Texts == UNION {TextsOfLen(n) : n \in 0..MaxTextLen}

ParseStages == {"TestMapper", "TestCaseGenerator", "ReproduceHelper", "BugWriter",
                "analyzeProject"}

\* How a run ended, read off the cells it left
Ending(threw, hasResult, hasError) ==
  IF threw THEN "threw"
  ELSE IF hasResult THEN "result"
  ELSE IF hasError THEN "error"
  ELSE "none"

\* What a run hands on: the structured array and the free-text summary
Artifact(arr, summary) == Some([arr |-> arr, summary |-> summary])

\* The artifact in a result cell holding a parsed object, if any
ArtifactOf(cell) ==
  IF IsSome(cell) THEN Artifact(TestCasesOr(Get(cell)), <<>>) ELSE None

InitParse ==
  /\ store = EmptyStore
  /\ currentProject = "A"
  /\ page = Dashboard
  /\ inflight = EmptyBag
  /\ apiKey = Some(<<"sk-ant-", "k">>)
  /\ uncaught = FALSE
  /\ chat = <<>>
  /\ probe \in [stage : ParseStages, text : Texts, ending : {"pending"},
                artifact : {None}]

ParseFrame == UNCHANGED <<store, currentProject, page, inflight, apiKey, uncaught, chat>>

TestMapperParses ==
  /\ probe.stage = "TestMapper"
  /\ probe.ending = "pending"
  /\ LET o == AnalysisOutcome(store, Request("tm", currentProject),
                              [TestMapperInit EXCEPT !.loading = TRUE], "text", 1, probe.text)
     IN  probe' = [probe EXCEPT !.ending =
                     Ending(o.threw, IsSome(o.page.result), o.page.error # ""),
                                !.artifact = ArtifactOf(o.page.result)]
  /\ ParseFrame

TestCaseGeneratorParses ==
  /\ probe.stage = "TestCaseGenerator"
  /\ probe.ending = "pending"
  /\ LET o == GenerationOutcome(store, Request("tcg", currentProject),
                                [TestCaseGeneratorInit EXCEPT !.loading = TRUE], "text",
                                probe.text)
     IN  probe' = [probe EXCEPT !.ending =
                     Ending(o.threw, IsSome(o.page.testPlan), o.page.error # ""),
                                !.artifact = ArtifactOf(o.page.testPlan)]
  /\ ParseFrame

ReproduceHelperParses ==
  /\ probe.stage = "ReproduceHelper"
  /\ probe.ending = "pending"
  /\ LET pg == ReproParse([ReproduceHelperInit EXCEPT !.loading = TRUE], probe.text)
     IN  probe' = [probe EXCEPT !.ending = Ending(FALSE, IsSome(pg.reproSteps), pg.error # ""),
                                !.artifact = IF IsSome(pg.reproSteps)
                                               THEN Artifact(Get(pg.reproSteps), <<>>)
                                               ELSE None]
  /\ ParseFrame

BugWriterParses ==
  /\ probe.stage = "BugWriter"
  /\ probe.ending = "pending"
  /\ LET pg == StructureParse([BugWriterInit EXCEPT !.loading = TRUE], probe.text)
     IN  probe' = [probe EXCEPT !.ending = Ending(FALSE, pg.showForm, pg.alerted),
                                !.artifact = IF pg.showForm THEN Artifact(<<>>, <<>>)
                                                            ELSE None]
  /\ ParseFrame

AnalyzeProjectParses ==
  /\ probe.stage = "analyzeProject"
  /\ probe.ending = "pending"
  /\ LET m == analyzeProject(probe.text)
     IN  probe' = [probe EXCEPT !.ending = Ending(FALSE, ~m.fallback, m.fallback),
                                !.artifact = Artifact(m.flows, m.summary)]
  /\ ParseFrame

NextParse ==
  \/ TestMapperParses
  \/ TestCaseGeneratorParses
  \/ ReproduceHelperParses
  \/ BugWriterParses
  \/ AnalyzeProjectParses

SpecParse == InitParse /\ [][NextParse]_vars

\* C10: whatever the response text, the run of a stage throws nothing and
\* ends with a result or with an error or fallback outcome.
C10_RunEndsWithOutcome == probe.ending \in {"pending", "result", "error"}

----------------------------------------------------------------------------
(* A response of plain prose *)

\* A text with no brace or bracket in it, and something in it
IsProse(t) == t # <<>> /\ \A i \in 1..Len(t) : t[i] \notin {"{", "}", "[", "]"}

\* C11: a run on a response of plain prose hands on an artifact with an
\* empty structured array and the raw response as its summary.
C11_ProseYieldsDegradedArtifact ==
  (probe.ending # "pending" /\ IsProse(probe.text))
    => probe.artifact = Artifact(<<>>, probe.text)

----------------------------------------------------------------------------
(* An object that lacks its array field *)

Fieldless == <<"{", "}">>

\* The stored artifact of a stage is an object without its array field
StoredFieldless(stage, p) ==
  /\ p # NoProject
  /\ IsSome(getItem(store, stage, p))
  /\ LET r == JSONparse(Get(getItem(store, stage, p)))
     IN  r.ok /\ ~IsSome((IF r.val.kind = "cache" THEN Get(r.val.result) ELSE r.val).arr)

\* C12: an object without its array field is persisted, rendered and read
\* by the stages after it with no exception: the page stays up.
C12_MissingFieldsTolerated ==
  [][/\ \A r \in BagToSet(inflight) :
          (AnalysisSettles(r, "text", 1, Fieldless) \/ GenerationSettles(r, "text", Fieldless))
            => page'.name # "Crashed"
     /\ \A name \in PipelinePages :
          (/\ Navigate(name)
           /\ StoredFieldless("testmapper", currentProject)
                \/ StoredFieldless("testplan", currentProject))
            => page'.name # "Crashed"]_vars

----------------------------------------------------------------------------
(* Regression Runner handlers (src/src/renderer/pages/RegressionRunner.tsx) *)

\* regressionItems.filter(i => i.inSuite)
suiteItems(pg) == SelectSeq(pg.regressionItems, LAMBDA i : i.inSuite)

\* The view of a run in progress: activeRun && currentItem
ActiveRunView(pg) ==
  /\ pg.name = "RegressionRunner"
  /\ Len(pg.regressionItems) > 0
  /\ IsSome(pg.activeRun)
  /\ pg.currentIndex < Len(suiteItems(pg))

\* The view of the suite, with its checkboxes and Start Run
SuiteView(pg) ==
  /\ pg.name = "RegressionRunner"
  /\ Len(pg.regressionItems) > 0
  /\ ~ActiveRunView(pg)

\* A handler's setState calls, the render and the save effect after it
RegressionCommit(pg) ==
  /\ Commit(Outcome(pg, RegressionRunnerSave(store, currentProject, pg), FALSE),
            currentProject, inflight)
  /\ Frame

\* toggleSuite(id): a click on the row of an item
toggleSuite(id) ==
  /\ currentProject # NoProject
  /\ SuiteView(page)
  /\ \E i \in 1..Len(page.regressionItems) : page.regressionItems[i].id = id
  /\ RegressionCommit([page EXCEPT !.regressionItems =
       [i \in 1..Len(page.regressionItems) |->
          IF page.regressionItems[i].id = id
            THEN [page.regressionItems[i] EXCEPT !.inSuite = ~@]
            ELSE page.regressionItems[i]]])

\* startRun: the button is disabled while the suite is empty.  The save
\* effect does not run: neither the items nor the runs change.  The id of a
\* run is its start time; nothing looks a run up by its id.
startRun ==
  /\ currentProject # NoProject
  /\ SuiteView(page)
  /\ Len(suiteItems(page)) > 0
  /\ Len(page.runs) < MaxRuns
  /\ LET id == RunIds[Len(page.runs) + 1]
     IN  page' = [page EXCEPT !.activeRun = Some([id |-> id, results |-> <<>>]),
                              !.currentIndex = 0]
  /\ UNCHANGED <<store, inflight, uncaught>>
  /\ Frame

\* { ...results, [id]: result }: a key keeps its place when it is set again
WithResult(results, id, result) ==
  IF \E i \in 1..Len(results) : results[i][1] = id
    THEN [i \in 1..Len(results) |->
            IF results[i][1] = id THEN <<id, result>> ELSE results[i]]
    ELSE Append(results, <<id, result>>)

\* recordResult(result), from Pass, Fail or Skip of the run view
recordResult(result) ==
  /\ currentProject # NoProject
  /\ ActiveRunView(page)
  /\ Len(page.runs) < MaxRuns
  /\ LET currentItem == suiteItems(page)[page.currentIndex + 1]
         updated == [Get(page.activeRun) EXCEPT
                       !.results = WithResult(@, currentItem.id, result)]
     IN  IF page.currentIndex < Len(suiteItems(page)) - 1
           THEN RegressionCommit([page EXCEPT !.activeRun = Some(updated),
                                              !.currentIndex = @ + 1])
           ELSE RegressionCommit([page EXCEPT !.runs = Append(@, updated),
                                              !.activeRun = None])

\* cancelRun, confirmed
cancelRun ==
  /\ currentProject # NoProject
  /\ ActiveRunView(page)
  /\ page' = [page EXCEPT !.activeRun = None, !.currentIndex = 0]
  /\ UNCHANGED <<store, inflight, uncaught>>
  /\ Frame

\* What the stages before the Regression Runner may have left for a project
SeedPlans == {None, Some(PlanText(<<"T1">>)), Some(PlanText(<<"T2", "T1">>))}

SeedCoverage ==
  {None,
   Some(PlanText(<<StatusText("T1", "passed"), StatusText("T2", "failed")>>)),
   Some(PlanText(<<StatusText("T1", "failed"), StatusText("T2", "failed")>>))}

SeedBugs ==
  {None, Some(JSONstringify(JList(<<"a1">>))), Some(JSONstringify(JList(<<"a2", "a3">>))),
   Some(JSONstringify(JList(<<"a3", "a2", "a1">>)))}

\* The seeds laid down for project A, and for project B or not
Seeded(plan, cov, bugs, other) ==
  [EmptyStore EXCEPT
     !["testplan"] = [A |-> plan, B |-> None],
     !["coverage"] = [A |-> cov, B |-> None],
     !["bugs"] = [A |-> bugs,
                  B |-> IF other THEN Some(JSONstringify(JList(<<"b1">>))) ELSE None]]

InitRegression ==
  /\ \E other \in BOOLEAN :
       store = Seeded(Some(PlanText(<<"T2", "T1">>)),
                      Some(PlanText(<<StatusText("T1", "passed"), StatusText("T2", "failed")>>)),
                      Some(JSONstringify(JList(<<"a1">>))), other)
  /\ currentProject = NoProject
  /\ page = Dashboard
  /\ inflight = EmptyBag
  /\ apiKey = Some(<<"sk-ant-", "k">>)
  /\ uncaught = FALSE
  /\ chat = <<>>
  /\ probe = None

\* Every seed, for the suite a first load builds
InitSuite ==
  /\ \E plan \in SeedPlans, cov \in SeedCoverage, bugs \in SeedBugs, other \in BOOLEAN :
       store = Seeded(plan, cov, bugs, other)
  /\ currentProject = NoProject
  /\ page = Dashboard
  /\ inflight = EmptyBag
  /\ apiKey = Some(<<"sk-ant-", "k">>)
  /\ uncaught = FALSE
  /\ chat = <<>>
  /\ probe = None

NextSuite ==
  \/ \E p \in Projects : SelectProject(p)
  \/ \E name \in {"Dashboard", "RegressionRunner"} : Navigate(name)

SpecSuite == InitSuite /\ [][NextSuite]_vars

NextRegression ==
  \/ \E p \in Projects : SelectProject(p)
  \/ \E name \in {"Dashboard", "RegressionRunner"} : Navigate(name)
  \/ \E id \in {it.id : it \in AllItems} : toggleSuite(id)
  \/ startRun
  \/ \E result \in RunResults : recordResult(result)
  \/ cancelRun

SpecRegression == InitRegression /\ [][NextRegression]_vars

----------------------------------------------------------------------------
(* The suite a first load builds *)

\* A step that runs the load effect of the Regression Runner for project p
\* while no suite is stored for p
LoadsWithoutSuite(p) ==
  /\ page'.name = "RegressionRunner"
  /\ currentProject' = p
  /\ page.name # page'.name \/ currentProject' # currentProject
  /\ ~IsSome(getItem(store, "regression", p))

----------------------------------------------------------------------------
(* Suite membership *)

\* What a fresh mount of the Regression Runner on project p shows
Reloaded(st, p) == RegressionRunnerEffects(st, p, RegressionRunnerInit).page

\* C14: toggleSuite(id) flips inSuite of the item with that id and nothing
\* else: order, the other fields, the other items and the run history stay,
\* and the stored artifact holds the new membership, so a reload shows it.
C14_TogglePersists ==
  [][\A id \in {it.id : it \in AllItems} :
       toggleSuite(id) =>
         /\ Len(page'.regressionItems) = Len(page.regressionItems)
         /\ \A i \in 1..Len(page.regressionItems) :
              page'.regressionItems[i] =
                IF page.regressionItems[i].id = id
                  THEN [page.regressionItems[i] EXCEPT !.inSuite = ~@]
                  ELSE page.regressionItems[i]
         /\ page' = [page EXCEPT !.regressionItems = page'.regressionItems]
         /\ Reloaded(store', currentProject).regressionItems = page'.regressionItems
         /\ Reloaded(store', currentProject).runs = page.runs
         /\ \A p \in Projects \ {currentProject} :
              getItem(store', "regression", p) = getItem(store, "regression", p)]_vars

\* The failed test taken out of the suite, on the page and in the store
C14_TestToggledOut ==
  /\ page.name = "RegressionRunner"
  /\ currentProject = "A"
  /\ page.regressionItems = <<TestItem("T2", FALSE), BugItem("a1", TRUE)>>
  /\ IsSome(getItem(store, "regression", "A"))
  /\ ItemsOfText(Get(JSONparse(Get(getItem(store, "regression", "A"))).val.arr))
       = page.regressionItems

----------------------------------------------------------------------------
(* A regression run *)

\* The keys of a run's results, in the order they were first recorded
ResultKeys(run) == [i \in 1..Len(run.results) |-> run.results[i][1]]

SuiteIds(pg) == [i \in 1..Len(suiteItems(pg)) |-> suiteItems(pg)[i].id]

\* C15: a run in progress has its index within the suite and has recorded
\* exactly the suite items before the index, in suite order; the run that
\* finishes holds one result for every item of the suite and for no other.
C15_RunTraversesSuite ==
  [][/\ (page'.name = "RegressionRunner" /\ IsSome(page'.activeRun)) =>
          /\ page'.currentIndex < Len(suiteItems(page'))
          /\ ResultKeys(Get(page'.activeRun))
               = SubSeq(SuiteIds(page'), 1, page'.currentIndex)
     /\ \A result \in RunResults :
          (recordResult(result) /\ Len(page'.runs) = Len(page.runs) + 1) =>
            ResultKeys(page'.runs[Len(page'.runs)]) = SuiteIds(page)]_vars


\* The run history stored for a project
StoredRuns(st, p) ==
  LET data == getItem(st, "regression", p)
  IN  IF IsSome(data) /\ JSONparse(Get(data)).ok /\ JSONparse(Get(data)).val.kind = "suite"
        THEN RunsOfText(JSONparse(Get(data)).val.runs)
        ELSE <<>>

IsPrefix(s, t) == Len(s) <= Len(t) /\ SubSeq(t, 1, Len(s)) = s

\* The step records the result of the last item of the suite
RecordsLast == (\E result \in RunResults : recordResult(result))
                 /\ page.currentIndex = Len(suiteItems(page)) - 1

\* C16: a run enters the stored history of a project only at the moment
\* the result of the last suite item is recorded on that project.
C16_RunAppendedOnlyWhenFinished ==
  [][\A p \in Projects :
       StoredRuns(store', p) # StoredRuns(store, p) => (RecordsLast /\ currentProject = p)]_vars

\* What does hold of the history: on the page it changes only by the
\* append of the active run when the result of the last suite item is recorded, which ends the
\* run; no step changes or drops a run stored for a project; a cancelled
\* run is dropped and leaves the history and the store as they were.
C16_RunFinalizedOnce ==
  [][/\ \A p \in Projects : IsPrefix(StoredRuns(store, p), StoredRuns(store', p))
     /\ (page.name = "RegressionRunner" /\ page'.name = "RegressionRunner"
           /\ currentProject' = currentProject /\ page'.runs # page.runs) =>
          /\ RecordsLast
          /\ Len(page'.runs) = Len(page.runs) + 1
          /\ SubSeq(page'.runs, 1, Len(page.runs)) = page.runs
          /\ ResultKeys(page'.runs[Len(page'.runs)])[Len(page'.runs[Len(page'.runs)].results)]
               = suiteItems(page)[page.currentIndex + 1].id
          /\ page'.runs[Len(page'.runs)].id = Get(page.activeRun).id
          /\ ~IsSome(page'.activeRun)
          /\ StoredRuns(store', currentProject) = page'.runs
     /\ cancelRun =>
          /\ ~IsSome(page'.activeRun)
          /\ page'.runs = page.runs
          /\ store' = store]_vars

\* A finished run of two results, on the page and in the store
C16_RunStored ==
  /\ page.name = "RegressionRunner"
  /\ currentProject = "A"
  /\ ~IsSome(page.activeRun)
  /\ Len(page.runs) = 1
  /\ Len(page.runs[1].results) = 2
  /\ StoredRuns(store, "A") = page.runs

----------------------------------------------------------------------------
(* The model gateway: text extraction (src/electron/main.ts and the SDK    *)
(* client of src/unnamed/part_000)                                         *)

\* A content block { type, text? }; a block without text has text = "undefined"
TextBlock(t) == [type |-> "text", text |-> t]

Blocks == {TextBlock("a"), TextBlock("b"), TextBlock(""),
           [type |-> "tool_use", text |-> "undefined"],
           [type |-> "thinking", text |-> "undefined"]}

RECURSIVE ContentsOfLen(_)
ContentsOfLen(n) ==
  IF n = 0 THEN {<<>>}
  ELSE {Append(c, b) : c \in ContentsOfLen(n - 1), b \in Blocks}

Contents == UNION {ContentsOfLen(n) : n \in 0..MaxBlocks}

Returned(text) == [kind |-> "returned", text |-> text]
Thrown(message) == [kind |-> "threw", text |-> message]

\* data.content.find((c) => c.type === 'text'): its index, 0 for undefined
FindText(content) ==
  IF \E i \in 1..Len(content) : content[i].type = "text"
    THEN CHOOSE i \in 1..Len(content) :
           content[i].type = "text" /\ \A j \in 1..(i - 1) : content[j].type # "text"
    ELSE 0

\* main.ts 'call-claude' on an ok response: textContent?.text || ''
CallClaudeText(content) ==
  LET i == FindText(content)
  IN  IF i = 0 \/ content[i].text = "undefined" THEN Returned("")
      ELSE Returned(content[i].text)

\* part_000 analyzeCode and chat: message.content[0], its type inspected;
\* with no block at all content.type is a TypeError
SdkText(content) ==
  IF content = <<>> THEN Thrown("TypeError")
  ELSE IF content[1].type = "text" THEN Returned(content[1].text)
  ELSE Thrown("Unexpected response format")

Gateways == {"call-claude", "analyzeCode"}

InitGateway ==
  /\ store = EmptyStore
  /\ currentProject = NoProject
  /\ page = Dashboard
  /\ inflight = EmptyBag
  /\ apiKey = Some(<<"sk-ant-", "k">>)
  /\ uncaught = FALSE
  /\ chat = <<>>
  /\ probe \in [gateway : Gateways, content : Contents,
                out : {[kind |-> "pending", text |-> ""]}]

CallClaudeReturns ==
  /\ probe.gateway = "call-claude"
  /\ probe.out.kind = "pending"
  /\ probe' = [probe EXCEPT !.out = CallClaudeText(probe.content)]
  /\ ParseFrame

AnalyzeCodeReturns ==
  /\ probe.gateway = "analyzeCode"
  /\ probe.out.kind = "pending"
  /\ probe' = [probe EXCEPT !.out = SdkText(probe.content)]
  /\ ParseFrame

NextGateway == CallClaudeReturns \/ AnalyzeCodeReturns

SpecGateway == InitGateway /\ [][NextGateway]_vars

\* C17: the gateway returns the text of the first text block of the
\* response, wherever it stands, and fails with the unexpected-format error
\* when the response holds no text block.
C17_FirstTextBlockOrError ==
  probe.out.kind # "pending" =>
    IF \E i \in 1..Len(probe.content) : probe.content[i].type = "text"
      THEN \E i \in 1..Len(probe.content) :
             /\ probe.content[i].type = "text"
             /\ \A j \in 1..(i - 1) : probe.content[j].type # "text"
             /\ probe.out = Returned(probe.content[i].text)
      ELSE probe.out = Thrown("Unexpected response format")


----------------------------------------------------------------------------
(* The API key: the Settings handlers, and every AI-backed action with the *)
(* checks it makes before its request goes to the gateway                  *)

\* What may be typed into the key box: a key of the expected form, one
\* without the prefix
KeyInputs == {<<"sk-ant-", "k">>, <<"k">>}

\* handleSaveKey: any non-empty input that is not the mask is stored
handleSaveKey(input) ==
  /\ page.name = "Settings"
  /\ apiKey # Some(input)
  /\ apiKey' = Some(input)
  /\ page' = [page EXCEPT !.hasKey = TRUE]
  /\ UNCHANGED <<store, currentProject, inflight, uncaught, chat, probe>>

\* handleClearKey
handleClearKey ==
  /\ page.name = "Settings"
  /\ IsSome(apiKey)
  /\ apiKey' = None
  /\ page' = [page EXCEPT !.hasKey = FALSE]
  /\ UNCHANGED <<store, currentProject, inflight, uncaught, chat, probe>>

\* runAnalysis up to its first await, readProjectFiles: the key is checked
\* here with hasApiKey()
runAnalysisReads ==
  /\ page.name = "TestMapper"
  /\ currentProject # NoProject
  /\ ~page.loading
  /\ IF ~hasApiKey(apiKey)
       THEN Commit(Outcome([page EXCEPT !.error = "nokey"], store, FALSE),
                   currentProject, inflight)
       ELSE /\ BagCardinality(inflight) < MaxOutstanding
            /\ Commit(Outcome([page EXCEPT !.loading = TRUE, !.error = "", !.result = None],
                              store, FALSE),
                      currentProject, inflight (+) SetToBag({Request("files", currentProject)}))
  /\ UNCHANGED <<currentProject, apiKey, chat, probe>>

\* callClaude of the API service: it throws the configuration error only
\* when no key is stored at all
callClaudeThrows(key) == ~IsSome(key) \/ Get(key) = <<>>

\* runAnalysis from the files read to its second await, analyzeCode: no
\* file ends the run, callClaude reads the key stored by now
runAnalysisCalls(r, files) ==
  /\ BagIn(r, inflight)
  /\ r.stage = "files"
  /\ IF files = 0 \/ callClaudeThrows(apiKey)
       THEN LET o == AnalysisOutcome(store, r, IF r.alive THEN page ELSE TestMapperInit,
                                     IF files = 0 THEN "nofiles" ELSE "fail", files, <<>>)
            IN  Commit(Outcome(IF r.alive THEN o.page ELSE page, o.store, o.threw),
                       currentProject, inflight (-) SetToBag({r}))
       ELSE Commit(Outcome(IF r.alive THEN [page EXCEPT !.filesScanned = files] ELSE page,
                           store, FALSE),
                   currentProject,
                   (inflight (-) SetToBag({r})) (+) SetToBag({[r EXCEPT !.stage = "tm"]}))
  /\ UNCHANGED <<currentProject, apiKey, chat, probe>>

\* The bug picked in the select box of the Reproduce Helper
selectBug(id) ==
  /\ page.name = "ReproduceHelper"
  /\ Has(page.bugs, id)
  /\ page.selectedBugId # Some(id)
  /\ page' = [page EXCEPT !.selectedBugId = Some(id)]
  /\ UNCHANGED <<store, currentProject, inflight, apiKey, uncaught, chat, probe>>

\* generateReproSteps up to its await; the page shows the button only with
\* a project, bugs and an API key
generateReproSteps ==
  /\ page.name = "ReproduceHelper"
  /\ ~page.loading
  /\ currentProject # NoProject
  /\ IsSome(page.selectedBugId)
  /\ hasApiKey(apiKey)
  /\ Has(page.bugs, Get(page.selectedBugId))
  /\ BagCardinality(inflight) < MaxInflight
  /\ Commit(Outcome([page EXCEPT !.loading = TRUE, !.error = ""], store, FALSE),
            currentProject, inflight (+) SetToBag({Request("repro", currentProject)}))
  /\ Frame

\* generateReproSteps after its await
ReproSettles(r, kind, response) ==
  /\ BagIn(r, inflight)
  /\ r.stage = "repro"
  /\ kind = "fail" => response = <<>>
  /\ LET parsed == IF kind = "fail" THEN [page EXCEPT !.error = "failed"]
                                    ELSE ReproParse(page, response)
     IN  Commit(Outcome(IF r.alive THEN [parsed EXCEPT !.loading = FALSE] ELSE page,
                        store, FALSE),
                currentProject, inflight (-) SetToBag({r}))
  /\ Frame

\* generateReport up to its await
generateReport ==
  /\ page.name = "SummaryGenerator"
  /\ ~page.loading
  /\ currentProject # NoProject
  /\ hasApiKey(apiKey)
  /\ IsSome(page.projectData)
  /\ BagCardinality(inflight) < MaxInflight
  /\ Commit(Outcome([page EXCEPT !.loading = TRUE, !.error = ""], store, FALSE),
            currentProject, inflight (+) SetToBag({Request("summary", currentProject)}))
  /\ Frame

\* generateReport after its await; the report text is left out
ReportSettles(r, kind) ==
  /\ BagIn(r, inflight)
  /\ r.stage = "summary"
  /\ Commit(Outcome(IF r.alive
                      THEN [page EXCEPT !.loading = FALSE,
                                        !.error = IF kind = "fail" THEN "failed" ELSE @]
                      ELSE page, store, FALSE),
            currentProject, inflight (-) SetToBag({r}))
  /\ Frame

\* The pages with an AI-backed action, and Settings
KeyPages == {"TestMapper", "TestCaseGenerator", "BugWriter", "QAAssistant",
             "ReproduceHelper", "SummaryGenerator", "Settings"}

\* The analysis a run of the Test Mapper left for project A
SeedAnalysis ==
  JSONstringify(JCache(JSONparse(<<"{", "[", "T2", "T1", "]", "}">>).val, 1))

InitKeyGate ==
  /\ store = [EmptyStore EXCEPT !["testmapper"]["A"] = Some(SeedAnalysis),
                                !["bugs"]["A"] = Some(JSONstringify(JList(<<"a1">>)))]
  /\ currentProject = "A"
  /\ page = Dashboard
  /\ inflight = EmptyBag
  /\ apiKey \in {None} \cup {Some(k) : k \in KeyInputs}
  /\ uncaught = FALSE
  /\ chat = <<>>
  /\ probe = None

NextKeyGate ==
  \/ \E name \in KeyPages : Navigate(name)
  \/ \E input \in KeyInputs : handleSaveKey(input)
  \/ handleClearKey
  \/ runAnalysisReads
  \/ \E r \in BagToSet(inflight), files \in 0..Len(FileToks) : runAnalysisCalls(r, files)
  \/ \E r \in BagToSet(inflight) : AnalysisSettles(r, "fail", 1, <<>>)
  \/ \E r \in BagToSet(inflight) : AnalysisSettles(r, "text", 1, <<"{", "[", "T1", "]", "}">>)
  \/ generateTestCases
  \/ \E r \in BagToSet(inflight) : GenerationSettles(r, "fail", <<>>)
  \/ structureWithAI
  \/ \E r \in BagToSet(inflight) : StructureSettles(r, "fail", <<>>)
  \/ sendMessage
  \/ \E r \in BagToSet(inflight) : ChatSettles(r)
  \/ \E id \in {"a1"} : selectBug(id)
  \/ generateReproSteps
  \/ \E r \in BagToSet(inflight) : ReproSettles(r, "fail", <<>>)
  \/ \E r \in BagToSet(inflight) : ReproSettles(r, "text", <<"{", "[", "T1", "]", "}">>)
  \/ generateReport
  \/ \E r \in BagToSet(inflight), kind \in {"fail", "text"} : ReportSettles(r, kind)

\* Every AI-backed action, with the key open to change on the Settings page
SpecKeyGate == InitKeyGate /\ [][NextKeyGate]_vars

\* The requests of a bag that are with the gateway
GatewayStages == {"tm", "tcg", "bug", "chat", "repro", "summary"}

AtGateway(B) ==
  LET S == {r \in BagToSet(B) : r.stage \in GatewayStages}
  IN  BagCardinality([r \in S |-> B[r]])

\* C18: no step sends a request to the gateway while hasApiKey() is false
C18_NoRequestWithoutKey ==
  [][AtGateway(inflight') > AtGateway(inflight) => hasApiKey(apiKey)]_vars


----------------------------------------------------------------------------
(* The memories of the QA Assistant and the requests that carry them *)

\* clearChat, offered while there are messages
clearChat ==
  /\ page.name = "QAAssistant"
  /\ hasApiKey(apiKey)
  /\ Len(page.messages) > 0
  /\ Commit(Outcome([page EXCEPT !.messages = <<>>], store, FALSE), currentProject, inflight)
  /\ chat' = <<>>
  /\ AssistantFrame

InitMemories ==
  /\ store = EmptyStore
  /\ currentProject = NoProject
  /\ page = Dashboard
  /\ inflight = EmptyBag
  /\ apiKey = Some(<<"sk-ant-", "k">>)
  /\ uncaught = FALSE
  /\ chat = <<>>
  /\ probe = None

NextMemories ==
  \/ \E p \in Projects : SelectProject(p)
  \/ \E name \in {"Dashboard", "QAAssistant"} : Navigate(name)
  \/ sendMessage
  \/ \E r \in BagToSet(inflight) : ChatSettles(r)
  \/ clearChat
  \/ addMemory
  \/ toggleMemories
  \/ \E id \in AllMemories : removeMemory(id)
  \/ clearAllMemories

\* The QA Assistant with its memories, over two projects
SpecMemories == InitMemories /\ [][NextMemories]_vars

\* The memories stored for a project, as a mount of the assistant reads them
SavedMemories(st, p) == IF p = NoProject THEN <<>> ELSE LoadList(st, "memories", p)

\* The system prompt has the line of memory m
Carries(system, m) == \E i \in 1..Len(system) : system[i] = "- " \o m

\* Memory m was saved under project p
Owns(p, m) == p # NoProject /\ Has(MemoryNames[p], m)

\* The request r is sent by this step
SentNow(r) ==
  /\ r.stage = "chat"
  /\ r.alive
  /\ CopiesIn(r, inflight') > CopiesIn(r, inflight)

\* C19: a chat request carries every memory stored for the current project,
\* and no memory that is not stored for it or belongs to another project
C19_MemoriesReachEveryRequest ==
  [][\A r \in BagToSet(inflight') :
       SentNow(r) =>
         LET saved == SavedMemories(store, currentProject)
         IN  /\ \A i \in 1..Len(saved) : Carries(r.system, saved[i])
             /\ \A m \in AllMemories :
                  Carries(r.system, m) => Has(saved, m) /\ Owns(currentProject, m)]_vars


----------------------------------------------------------------------------
(* The snapshots of the Comparison Tool; the cells of the comparison       *)
(* itself (baselineId, currentId, comparison) are left out                 *)

\* A snapshot is a token: its id is Date.now(), the letter tells the project
\* that was current when it was created
SnapshotNames == [A |-> <<"sa1", "sa2", "sa3">>, B |-> <<"sb1", "sb2", "sb3">>]

AllSnapshots == {SnapshotNames[p][i] : p \in Projects, i \in 1..3}

\* createSnapshot with a name typed in; without coverage data, or with
\* coverage data JSON.parse rejects, it alerts and changes nothing
createSnapshot ==
  /\ page.name = "ComparisonTool"
  /\ currentProject # NoProject
  /\ Len(page.snapshots) < MaxSnapshots
  /\ LET coverageData == getItem(store, "coverage", currentProject)
         ok == IsSome(coverageData) /\ JSONparse(Get(coverageData)).ok
         snapshots == Append(page.snapshots,
                             Fresh(SnapshotNames[currentProject], page.snapshots))
     IN  /\ ok
         /\ Commit(Outcome([page EXCEPT !.snapshots = snapshots],
                           ComparisonToolSave(store, currentProject,
                                              [page EXCEPT !.snapshots = snapshots]),
                           FALSE),
                   currentProject, inflight)
  /\ Frame

\* deleteSnapshot(id), confirmed; the save effect follows
deleteSnapshot(id) ==
  /\ page.name = "ComparisonTool"
  /\ currentProject # NoProject
  /\ Has(page.snapshots, id)
  /\ LET snapshots == Without(page.snapshots, id)
     IN  Commit(Outcome([page EXCEPT !.snapshots = snapshots],
                        ComparisonToolSave(store, currentProject,
                                           [page EXCEPT !.snapshots = snapshots]),
                        FALSE),
                currentProject, inflight)
  /\ Frame

\* Coverage data as the Coverage Tracker leaves it
SeedStatuses == PlanText(<<StatusText("T1", "passed")>>)

InitSnapshots ==
  /\ \E a, b \in {None, Some(SeedStatuses)} :
       store = [EmptyStore EXCEPT !["coverage"] = [A |-> a, B |-> b]]
  /\ currentProject = NoProject
  /\ page = Dashboard
  /\ inflight = EmptyBag
  /\ apiKey = Some(<<"sk-ant-", "k">>)
  /\ uncaught = FALSE
  /\ chat = <<>>
  /\ probe = None

NextSnapshots ==
  \/ \E p \in Projects : SelectProject(p)
  \/ \E name \in {"Dashboard", "ComparisonTool"} : Navigate(name)
  \/ createSnapshot
  \/ \E id \in AllSnapshots : deleteSnapshot(id)

\* The Comparison Tool with its snapshots, over two projects
SpecSnapshots == InitSnapshots /\ [][NextSnapshots]_vars

\* The snapshots stored for a project, as a mount of the page reads them
StoredSnapshots(st, p) == LoadList(st, "snapshots", p)

\* This step is deleteSnapshot(id)
Deletes(id) ==
  /\ page.name = "ComparisonTool"
  /\ page'.name = "ComparisonTool"
  /\ currentProject' = currentProject
  /\ Has(page.snapshots, id)
  /\ page'.snapshots = Without(page.snapshots, id)

\* C20: after deleteSnapshot(id) the list stored for the project is without
\* the snapshot, also when it was the only one, and holds every other
\* snapshot it held; the other project's list is as it was
C20_DeletionIsDurable ==
  [][\A id \in AllSnapshots :
       Deletes(id) =>
         /\ ~Has(StoredSnapshots(store', currentProject), id)
         /\ StoredSnapshots(store', currentProject)
              = Without(StoredSnapshots(store, currentProject), id)
         /\ \A p \in Projects \ {currentProject} :
              store'["snapshots"][p] = store["snapshots"][p]]_vars


----------------------------------------------------------------------------
(* The end of a stage run *)

\* The step takes request r out of the requests in flight
Settles(r) ==
  /\ BagCardinality(inflight') < BagCardinality(inflight)
  /\ CopiesIn(r, inflight') < CopiesIn(r, inflight)

\* The page shows the artifact of its run and the store holds it under the
\* project the run was started for
Complete(pg, st, r) ==
  CASE r.stage = "tm" ->
         /\ IsSome(pg.result)
         /\ getItem(st, "testmapper", r.project)
              = Some(JSONstringify(JCache(Get(pg.result), pg.filesScanned)))
    [] r.stage = "tcg" ->
         /\ IsSome(pg.testPlan)
         /\ getItem(st, "testplan", r.project) = Some(JSONstringify(Get(pg.testPlan)))
    [] OTHER -> FALSE

\* C21: when the request of a Test Mapper or Test Case Generator run settles
\* on the page that started it, the page is no longer loading and either
\* shows an error or shows the result, which is stored
C21_RunLeavesRunning ==
  [][\A r \in BagToSet(inflight) :
       (r.stage \in {"tm", "tcg"} /\ r.alive /\ Settles(r)) =>
         /\ page'.name = page.name
         /\ ~page'.loading
         /\ page'.error # "" \/ Complete(page', store', r)]_vars


----------------------------------------------------------------------------
(* The store across a run that ends in error *)

\* The step puts an error on the stage page that showed none
ErrorAppears ==
  /\ page.name \in {"TestMapper", "TestCaseGenerator"}
  /\ page'.name = page.name
  /\ page.error = ""
  /\ page'.error # ""

\* The step starts a run: a request more is in flight
RunStarts == BagCardinality(inflight') > BagCardinality(inflight)

----------------------------------------------------------------------------
(* Coverage Tracker handlers *)

\* The entry of a test case in the statuses, if it has one
HasEntry(statuses, testId) ==
  \E i \in 1..Len(statuses), s \in Statuses : statuses[i] = StatusText(testId, s)

\* getStatus without its default: a test case without an entry has no status
getStatus_NoDefault(statuses, testId) ==
  IF HasEntry(statuses, testId)
    THEN CHOOSE s \in Statuses : Has(statuses, StatusText(testId, s))
    ELSE "undefined"

\* getStatus: coverage.statuses[testId]?.status || 'pending'
getStatus(statuses, testId) ==
  IF HasEntry(statuses, testId)
    THEN CHOOSE s \in Statuses : Has(statuses, StatusText(testId, s))
    ELSE "pending"

\* { ...prev.statuses, [testId]: { id, status, .. } }: an existing key keeps
\* its place, a new key goes last
WithStatus(statuses, testId, status) ==
  IF HasEntry(statuses, testId)
    THEN [i \in 1..Len(statuses) |->
            IF \E s \in Statuses : statuses[i] = StatusText(testId, s)
              THEN StatusText(testId, status) ELSE statuses[i]]
    ELSE Append(statuses, StatusText(testId, status))

\* A change of the coverage cell, with the save effect that follows it
CoverageCommit(coverage) ==
  LET pg == [page EXCEPT !.coverage = coverage]
  IN  /\ Commit(Outcome(pg, CoverageTrackerSave(store, currentProject, pg), FALSE),
                currentProject, inflight)
      /\ Frame

\* updateStatus(testId, status), from the buttons of a listed test case
updateStatus(testId, status) ==
  /\ page.name = "CoverageTracker"
  /\ currentProject # NoProject
  /\ Has(page.testCases, testId)
  /\ getStatus(page.coverage.statuses, testId) # status
  /\ CoverageCommit([statuses |-> WithStatus(page.coverage.statuses, testId, status),
                     lastUpdated |-> 1])

\* updateNote(testId, note): the status is kept, 'pending' if there is none
updateNote(testId) ==
  /\ page.name = "CoverageTracker"
  /\ currentProject # NoProject
  /\ Has(page.testCases, testId)
  /\ CoverageCommit([statuses |-> WithStatus(page.coverage.statuses, testId,
                                             getStatus(page.coverage.statuses, testId)),
                     lastUpdated |-> 1])

\* resetCoverage, confirmed
resetCoverage ==
  /\ page.name = "CoverageTracker"
  /\ currentProject # NoProject
  /\ Len(page.testCases) > 0
  /\ CoverageCommit([statuses |-> <<>>, lastUpdated |-> 1])


----------------------------------------------------------------------------
(* Regeneration of the test plan next to the artifacts recorded against it *)

\* Every artifact of project A present, and coverage for project B
InitRegenerate ==
  /\ store = [EmptyStore EXCEPT
                !["testmapper"]["A"] = Some(SeedAnalysis),
                !["testplan"]["A"] = Some(PlanText(<<"T2", "T1">>)),
                !["coverage"] = [A |-> Some(PlanText(<<StatusText("T1", "passed"),
                                                       StatusText("T2", "failed")>>)),
                                 B |-> Some(PlanText(<<StatusText("T1", "blocked")>>))],
                !["snapshots"]["A"] = Some(JSONstringify(JList(<<"sa1">>))),
                !["bugs"]["A"] = Some(JSONstringify(JList(<<"a1">>)))]
  /\ currentProject = NoProject
  /\ page = Dashboard
  /\ inflight = EmptyBag
  /\ apiKey = Some(<<"sk-ant-", "k">>)
  /\ uncaught = FALSE
  /\ chat = <<>>
  /\ probe = None

NextRegenerate ==
  \/ \E p \in Projects : SelectProject(p)
  \/ \E name \in {"Dashboard", "TestCaseGenerator", "CoverageTracker"} : Navigate(name)
  \/ generateTestCases
  \/ \E r \in BagToSet(inflight) : GenerationSettles(r, "fail", <<>>)
  \/ \E r \in BagToSet(inflight), response \in Responses :
       GenerationSettles(r, "text", response)
  \/ \E testId \in Ids, status \in {"passed", "failed"} : updateStatus(testId, status)

\* The Test Case Generator run again over a project with recorded coverage
SpecRegenerate == InitRegenerate /\ [][NextRegenerate]_vars

\* The step starts or ends the run of request r
RunStep(r) ==
  \/ CopiesIn(r, inflight') > CopiesIn(r, inflight) /\ r.alive
  \/ Settles(r)

\* C23: a step of a Test Case Generator run changes no key of the store but
\* the test-plan key of the project the run was started for
C23_RegenerationFrame ==
  [][\A r \in BagToSet(inflight) \cup BagToSet(inflight') :
       (r.stage = "tcg" /\ RunStep(r)) =>
         \A stage \in Stages, p \in Projects :
           (stage # "testplan" \/ p # r.project)
             => store'[stage][p] = store[stage][p]]_vars

\* A new plan without T2 is stored for project A by a run that has ended,
\* and the coverage of A still holds the statuses of T1 and of T2
C23_PlanReplacedCoverageKept ==
  /\ page.name = "TestCaseGenerator"
  /\ ~page.loading
  /\ BagCardinality(inflight) = 0
  /\ getItem(store, "testplan", "A") = Some(PlanText(<<"T1">>))
  /\ LoadCoverage(store, "A").statuses
       = <<StatusText("T1", "passed"), StatusText("T2", "failed")>>


----------------------------------------------------------------------------
(* The regression suite next to the artifacts it was built from *)

InitSeeds ==
  /\ store = [Seeded(Some(PlanText(<<"T2", "T1">>)),
                     Some(PlanText(<<StatusText("T1", "passed"), StatusText("T2", "failed")>>)),
                     Some(JSONstringify(JList(<<"a1">>))), FALSE)
                EXCEPT !["testmapper"]["A"] = Some(SeedAnalysis)]
  /\ currentProject = "A"
  /\ page = Dashboard
  /\ inflight = EmptyBag
  /\ apiKey = Some(<<"sk-ant-", "k">>)
  /\ uncaught = FALSE
  /\ chat = <<>>
  /\ probe = None

NextSeeds ==
  \/ \E name \in {"Dashboard", "RegressionRunner", "BugWriter", "CoverageTracker",
                  "TestCaseGenerator"} : Navigate(name)
  \/ \E id \in {TestItem("T2", TRUE).id} : toggleSuite(id)
  \/ openForm
  \/ saveBug
  \/ \E id \in {"a1"} : deleteBug(id)
  \/ \E testId \in {"T1"}, status \in {"failed"} : updateStatus(testId, status)
  \/ generateTestCases
  \/ \E r \in BagToSet(inflight) : GenerationSettles(r, "text", <<"{", "[", "T1", "]", "}">>)

\* One project: its suite, and the pages that change what the suite was
\* built from
SpecSeeds == InitSeeds /\ [][NextSeeds]_vars

SeedKeys == {"testplan", "coverage", "bugs"}

\* The item list a mount of the Regression Runner loads for a project
LoadedItems(st, p) == RegressionRunnerLoad(st, p, RegressionRunnerInit).page.regressionItems

\* C24: with a suite stored for a project, a step that changes its test
\* plan, its coverage or its bugs leaves the item list the Regression Runner
\* loads for it as it was
C24_SuiteIndependentOfSeeds ==
  [][\A p \in Projects :
       (/\ IsSome(getItem(store, "regression", p))
        /\ \E k \in SeedKeys : store'[k][p] # store[k][p])
         => /\ ~RegressionRunnerLoad(store', p, RegressionRunnerInit).threw
            /\ LoadedItems(store', p) = LoadedItems(store, p)]_vars

\* The Regression Runner shows the suite built from the failed test T2 and
\* the bug a1, loaded after a second bug was logged, T1 was marked failed
\* and T2 left the plan
C24_SuiteOutlivesSeeds ==
  /\ page.name = "RegressionRunner"
  /\ currentProject = "A"
  /\ [i \in 1..Len(page.regressionItems) |-> page.regressionItems[i].referenceId]
       = <<"T2", "a1">>
  /\ page.bugs = <<"a1", "a2">>
  /\ page.testCases = <<"T1">>
  /\ FailedTestIds(getItem(store, "coverage", "A")) = {"T1", "T2"}


----------------------------------------------------------------------------
(* Requests of one stage outstanding together *)

InitOutstanding ==
  /\ store = EmptyStore
  /\ currentProject \in Projects
  /\ page = Dashboard
  /\ inflight = EmptyBag
  /\ apiKey = Some(<<"sk-ant-", "k">>)
  /\ uncaught = FALSE
  /\ chat = <<>>
  /\ probe = None

NextOutstanding ==
  \/ \E name \in {"Dashboard", "TestMapper"} : Navigate(name)
  \/ runAnalysisReads
  \/ \E r \in BagToSet(inflight), files \in 0..Len(FileToks) : runAnalysisCalls(r, files)
  \/ \E r \in BagToSet(inflight) : AnalysisSettles(r, "fail", 1, <<>>)
  \/ \E r \in BagToSet(inflight), response \in {<<"x">>, <<"{", "[", "T1", "]", "}">>,
                                                <<"{", "[", "T2", "T1", "]", "}">>} :
       AnalysisSettles(r, "text", 1, response)

\* The Test Mapper left and opened again while its run is outstanding
SpecOutstanding == InitOutstanding /\ [][NextOutstanding]_vars

\* The requests of a stage and project that are with the gateway
Outstanding(stage, p) ==
  LET S == {r \in BagToSet(inflight) : r.stage = stage /\ r.project = p}
  IN  BagCardinality([r \in S |-> inflight[r]])

\* C25: at most one request of a stage and project is with the gateway
C25_OneOutstandingPerStage ==
  \A stage \in GatewayStages, p \in Projects : Outstanding(stage, p) <= 1


----------------------------------------------------------------------------
(* Voice notes of the Session Logger *)

\* The microphone is granted or not; the recorder keeps the addEntry of the
\* render that was current at the click
startVoiceRecording(granted) ==
  /\ page.name = "SessionLogger"
  /\ currentProject # NoProject
  /\ IsSome(page.activeSession)
  /\ ~page.isRecording
  /\ IF granted
       THEN Commit(Outcome([page EXCEPT
                              !.isRecording = TRUE,
                              !.recorder = Some([sessions |-> page.sessions,
                                                 activeSession |-> page.activeSession])],
                           store, FALSE),
                   currentProject, inflight)
       ELSE UNCHANGED <<store, page, inflight, uncaught>>     \* alert
  /\ Frame

\* A recording stopped whose FileReader has not finished
VoiceNote(p, recorder) ==
  [stage |-> "voice", project |-> p, alive |-> TRUE,
   sessions |-> recorder.sessions, activeSession |-> recorder.activeSession]

\* The Stop button stands in the card of the active session
stopVoiceRecording ==
  /\ page.name = "SessionLogger"
  /\ currentProject # NoProject
  /\ IsSome(page.activeSession)
  /\ page.isRecording
  /\ IsSome(page.recorder)
  /\ BagCardinality(inflight) < MaxInflight
  /\ Commit(Outcome([page EXCEPT !.isRecording = FALSE], store, FALSE), currentProject,
            inflight (+) SetToBag({VoiceNote(currentProject, Get(page.recorder))}))
  /\ Frame

\* onstop -> reader.onloadend -> addEntry of the recorder's render, then the
\* save effect of the mounted page
VoiceLoaded(r) ==
  /\ BagIn(r, inflight)
  /\ r.stage = "voice"
  /\ IF r.alive /\ IsSome(r.activeSession)
       THEN LET updated == MapSessions(r.sessions, SessionId(Get(r.activeSession)), "voice")
                prev == page.activeSession
            IN  Commit(Outcome([page EXCEPT
                                  !.sessions = updated,
                                  !.activeSession = IF IsSome(prev)
                                                      THEN Some(WithVoice(Get(prev)))
                                                      ELSE None],
                               SaveList(store, "sessions", currentProject, updated), FALSE),
                       currentProject, inflight (-) SetToBag({r}))
       ELSE /\ inflight' = inflight (-) SetToBag({r})
            /\ UNCHANGED <<store, page, uncaught>>
  /\ Frame

InitSessions ==
  /\ store = EmptyStore
  /\ currentProject \in Projects
  /\ page = Dashboard
  /\ inflight = EmptyBag
  /\ apiKey = None
  /\ uncaught = FALSE
  /\ chat = <<>>
  /\ probe = None

NextSessions ==
  \/ \E name \in {"Dashboard", "SessionLogger"} : Navigate(name)
  \/ startSession
  \/ endSession
  \/ addTextNote
  \/ clearSessions
  \/ \E granted \in BOOLEAN : startVoiceRecording(granted)
  \/ stopVoiceRecording
  \/ \E r \in BagToSet(inflight) : VoiceLoaded(r)

\* One project, sessions with text and voice notes
SpecSessions == InitSessions /\ [][NextSessions]_vars

\* C26: the active session, with all its entries, is in the session list
\* stored for the project
C26_ActiveSessionStored ==
  (page.name = "SessionLogger" /\ currentProject # NoProject /\ IsSome(page.activeSession)) =>
    Has(LoadList(store, "sessions", currentProject), Get(page.activeSession))


----------------------------------------------------------------------------
(* The view and the store *)

\* The analysis result stored for a project, None when there is none
StoredResult(st, p) ==
  LET cached == getItem(st, "testmapper", p)
  IN  IF IsSome(cached) /\ JSONparse(Get(cached)).ok
        THEN JSONparse(Get(cached)).val.result
        ELSE None

\* The test plan stored for a project, None when there is none
StoredPlan(st, p) ==
  LET cachedPlan == getItem(st, "testplan", p)
  IN  IF IsSome(cachedPlan) /\ JSONparse(Get(cachedPlan)).ok
        THEN Some(JSONparse(Get(cachedPlan)).val)
        ELSE None

\* C27: an idle Test Mapper or Test Case Generator shows the artifact stored
\* for the current project, and nothing when none is stored
C27_ViewMatchesStore ==
  (currentProject # NoProject /\ inflight = EmptyBag) =>
    /\ page.name = "TestMapper" => page.result = StoredResult(store, currentProject)
    /\ page.name = "TestCaseGenerator" => page.testPlan = StoredPlan(store, currentProject)


----------------------------------------------------------------------------
(* Statistics of the Coverage Tracker *)

\* testCases.filter(tc => getStatus(tc.id) === status).length
CountStatus(pg, status) ==
  Cardinality({i \in 1..Len(pg.testCases) :
                 getStatus(pg.coverage.statuses, pg.testCases[i]) = status})

stats(pg) ==
  [total |-> Len(pg.testCases),
   pending |-> CountStatus(pg, "pending"),
   passed |-> CountStatus(pg, "passed"),
   failed |-> CountStatus(pg, "failed"),
   blocked |-> CountStatus(pg, "blocked"),
   skipped |-> CountStatus(pg, "skipped")]

executed(pg) ==
  stats(pg).passed + stats(pg).failed + stats(pg).blocked + stats(pg).skipped

\* Math.round((part / whole) * 100): halves go up
MathRound(part, whole) == (200 * part + whole) \div (2 * whole)

passRate(pg) == IF executed(pg) > 0 THEN MathRound(stats(pg).passed, executed(pg)) ELSE 0

progress(pg) == IF stats(pg).total > 0 THEN MathRound(executed(pg), stats(pg).total) ELSE 0

\* A plan of three test cases for project A with no coverage yet, a plan of
\* one for project B with a status recorded
InitCoverage ==
  /\ store = [EmptyStore EXCEPT
                !["testplan"] = [A |-> Some(PlanText(<<"T1", "T2", "T3">>)),
                                 B |-> Some(PlanText(<<"T1">>))],
                !["coverage"]["B"] = Some(PlanText(<<StatusText("T1", "skipped")>>))]
  /\ currentProject = NoProject
  /\ page = Dashboard
  /\ inflight = EmptyBag
  /\ apiKey = None
  /\ uncaught = FALSE
  /\ chat = <<>>
  /\ probe = None

NextCoverage ==
  \/ \E p \in Projects : SelectProject(p)
  \/ \E name \in {"Dashboard", "CoverageTracker"} : Navigate(name)
  \/ \E testId \in {"T1", "T2", "T3"}, status \in Statuses : updateStatus(testId, status)
  \/ \E testId \in {"T1", "T2", "T3"} : updateNote(testId)
  \/ resetCoverage

\* Statuses and notes recorded against a plan, and coverage reset
SpecCoverage == InitCoverage /\ [][NextCoverage]_vars

\* C28: the five status counts add up to the number of test cases, a test
\* case without an entry counts as pending, executed is at most the total,
\* passRate and progress lie within 0..100
C28_CountsPartitionPlan ==
  page.name = "CoverageTracker" =>
    /\ stats(page).pending + stats(page).passed + stats(page).failed
         + stats(page).blocked + stats(page).skipped = stats(page).total
    /\ stats(page).pending >=
         Cardinality({i \in 1..Len(page.testCases) :
                        ~HasEntry(page.coverage.statuses, page.testCases[i])})
    /\ executed(page) <= stats(page).total
    /\ passRate(page) \in 0..100
    /\ progress(page) \in 0..100

\* Three test cases: one passed, one failed, one without an entry
C28_TwoOfThreeExecuted ==
  /\ page.name = "CoverageTracker"
  /\ stats(page).total = 3
  /\ stats(page).passed = 1
  /\ stats(page).failed = 1
  /\ stats(page).pending = 1
  /\ Len(page.coverage.statuses) = 2
  /\ passRate(page) = 50
  /\ progress(page) = 67


----------------------------------------------------------------------------
(* runComparison of the Comparison Tool *)

\* The statuses of a snapshot over the test cases T1 and T2: an entry with
\* one of the five statuses, or no entry
SnapshotStatuses ==
  {(IF s1 = "none" THEN <<>> ELSE <<StatusText("T1", s1)>>)
     \o (IF s2 = "none" THEN <<>> ELSE <<StatusText("T2", s2)>>) :
   s1 \in Statuses \cup {"none"}, s2 \in Statuses \cup {"none"}}

\* The list a test case is pushed to, "none" when no branch takes it
Branch(baseStatus, currStatus) ==
  IF baseStatus = "pending" /\ currStatus # "pending" THEN "newTests"
  ELSE IF baseStatus = "passed" /\ currStatus \in {"failed", "blocked"} THEN "regressions"
  ELSE IF baseStatus \in {"failed", "blocked"} /\ currStatus = "passed" THEN "improvements"
  ELSE IF baseStatus = currStatus THEN "unchanged"
  ELSE "none"

\* testCases.forEach over the statuses of the two snapshots
Compare(testCases, baseline, current) ==
  LET list(name) ==
        SelectSeq(testCases,
                  LAMBDA t : Branch(getStatus(baseline, t), getStatus(current, t)) = name)
  IN  [regressions |-> list("regressions"), improvements |-> list("improvements"),
       unchanged |-> list("unchanged"), newTests |-> list("newTests")]

\* The page with a plan loaded; a selected snapshot is held as its statuses
ComparePanel(testCases) ==
  [name |-> "ComparisonTool", testCases |-> testCases, baseline |-> None,
   current |-> None, comparison |-> None]

\* setBaselineId from the first select box
selectBaseline(statuses) ==
  /\ page.name = "ComparisonTool"
  /\ page.baseline # Some(statuses)
  /\ page' = [page EXCEPT !.baseline = Some(statuses)]
  /\ UNCHANGED <<store, currentProject, inflight, apiKey, uncaught, chat, probe>>

\* setCurrentId from the second select box
selectCurrent(statuses) ==
  /\ page.name = "ComparisonTool"
  /\ page.current # Some(statuses)
  /\ page' = [page EXCEPT !.current = Some(statuses)]
  /\ UNCHANGED <<store, currentProject, inflight, apiKey, uncaught, chat, probe>>

runComparison ==
  /\ page.name = "ComparisonTool"
  /\ IsSome(page.baseline)
  /\ IsSome(page.current)
  /\ page' = [page EXCEPT
                !.comparison = Some(Compare(page.testCases, Get(page.baseline),
                                            Get(page.current)))]
  /\ UNCHANGED <<store, currentProject, inflight, apiKey, uncaught, chat, probe>>

InitComparison ==
  /\ store = EmptyStore
  /\ currentProject = "A"
  /\ \E testCases \in {<<"T1">>, <<"T1", "T2">>} : page = ComparePanel(testCases)
  /\ inflight = EmptyBag
  /\ apiKey = None
  /\ uncaught = FALSE
  /\ chat = <<>>
  /\ probe = None

NextComparison ==
  \/ \E statuses \in SnapshotStatuses : selectBaseline(statuses)
  \/ \E statuses \in SnapshotStatuses : selectCurrent(statuses)
  \/ runComparison

\* Two snapshots selected and compared over a plan
SpecComparison == InitComparison /\ [][NextComparison]_vars

\* The comparison on the page is the one of the selected snapshots
Compared ==
  /\ page.name = "ComparisonTool"
  /\ IsSome(page.baseline)
  /\ IsSome(page.current)
  /\ page.comparison = Some(Compare(page.testCases, Get(page.baseline), Get(page.current)))

\* C29: every test case of the plan is in exactly one of the four lists of
\* the comparison, and the lengths of the lists add up to the length of the plan
C29_ComparisonPartitions ==
  Compared =>
    LET c == Get(page.comparison)
        lists == <<c.regressions, c.improvements, c.newTests, c.unchanged>>
    IN  /\ \A i \in 1..Len(page.testCases) :
             Cardinality({k \in 1..4 : Has(lists[k], page.testCases[i])}) = 1
        /\ Len(c.regressions) + Len(c.improvements) + Len(c.newTests) + Len(c.unchanged)
             = Len(page.testCases)


----------------------------------------------------------------------------
(* The stored conversation *)

\* A sequence of user/assistant pairs
Alternates(messages) ==
  /\ Len(messages) % 2 = 0
  /\ \A i \in 1..Len(messages) :
       messages[i] = (IF i % 2 = 1 THEN "user" ELSE "assistant")

\* C30: with the assistant open and no chat request in flight, the stored
\* conversation is a sequence of user/assistant pairs that starts with a
\* user message
C30_ChatAlternates ==
  (page.name = "QAAssistant" /\ \A r \in BagToSet(inflight) : r.stage # "chat") =>
    Alternates(chat)

====
